---- MODULE Spec2Model ----
(***************************************************************************)
(* A model of lib-dcrypt's OpenSSL backend (src/lib-dcrypt/dcrypt-openssl.c):*)
(* the symmetric cipher context, key generation, and the Dovecot v1/v2      *)
(* textual private-key codec.                                               *)
(*                                                                          *)
(* Text is a sequence of one-character strings, binary data a sequence of   *)
(* byte values 0..255.  The OpenSSL primitives (AES, SHA-256, PBKDF2, EC    *)
(* and RSA arithmetic, DER) are outside the repository; they are replaced   *)
(* by small arithmetic stand-ins that keep what the callers rely on: they   *)
(* are deterministic, key dependent and invertible where the real ones are. *)
(* A backend call that can fail is given a fault input naming the call that *)
(* fails; a read of an uninitialised value is an input over its outcomes.   *)
(***************************************************************************)
EXTENDS Integers, Sequences, FiniteSets, TLC

(***************************************************************************)
(* Bounds of the model.                                                     *)
(***************************************************************************)
\* largest private scalar / RSA key number of the key universe
MaxScalar == 2
\* number of distinct fill bytes random_fill can produce
MaxRandom == 1
\* number of update calls between one init and its final
MaxUpdates == 1
\* number of completed final calls on one symmetric context
MaxFinals == 2
\* largest number of fields of a crafted key record
MaxFields == 12

(***************************************************************************)
(* Text and bytes.                                                          *)
(***************************************************************************)
RECURSIVE FoldFrom(_, _)
FoldFrom(s, j) ==
    IF j > Len(s) THEN 0 ELSE (j * s[j] + FoldFrom(s, j + 1)) % 251

\* a position-weighted checksum: the arithmetic stand-ins mix their inputs with it
Fold(s) == FoldFrom(s, 1)

Zeros(n) == [i \in 1..n |-> 0]

Fill(n, b) == [i \in 1..n |-> b]

Min(a, b) == IF a < b THEN a ELSE b

HexDigits == <<"0","1","2","3","4","5","6","7","8","9","a","b","c","d","e","f">>

HexValue(c) ==
    CASE c = "0" -> 0 [] c = "1" -> 1 [] c = "2" -> 2 [] c = "3" -> 3
      [] c = "4" -> 4 [] c = "5" -> 5 [] c = "6" -> 6 [] c = "7" -> 7
      [] c = "8" -> 8 [] c = "9" -> 9
      [] c \in {"a", "A"} -> 10 [] c \in {"b", "B"} -> 11
      [] c \in {"c", "C"} -> 12 [] c \in {"d", "D"} -> 13
      [] c \in {"e", "E"} -> 14 [] c \in {"f", "F"} -> 15
      [] OTHER -> 0 - 1

\* binary_to_hex: two lowercase digits per byte, high nibble first
binary_to_hex(b) ==
    [i \in 1..(2 * Len(b)) |->
        IF i % 2 = 1 THEN HexDigits[(b[(i + 1) \div 2] \div 16) + 1]
                     ELSE HexDigits[(b[i \div 2] % 16) + 1]]

\* the number of leading pairs of hex digits of s
HexPairs(s) ==
    LET bad == {i \in 1..Len(s) : HexValue(s[i]) < 0}
        stop == IF bad = {} THEN Len(s) + 1
                ELSE CHOOSE i \in bad : \A j \in bad : i <= j
    IN (stop - 1) \div 2

\* hex_to_binary: decodes pairs of digits until the end of the text or the
\* first character that is no hex digit, or a digit without its pair; -1
\* then, with the bytes decoded so far
hex_to_binary(s) ==
    LET n == HexPairs(s) IN
    [ret |-> IF 2 * n = Len(s) THEN 0 ELSE 0 - 1,
     data |-> [i \in 1..n |-> 16 * HexValue(s[2 * i - 1]) + HexValue(s[2 * i])]]

Digits == <<"0","1","2","3","4","5","6","7","8","9">>

DigitValue(c) ==
    CASE c = "0" -> 0 [] c = "1" -> 1 [] c = "2" -> 2 [] c = "3" -> 3
      [] c = "4" -> 4 [] c = "5" -> 5 [] c = "6" -> 6 [] c = "7" -> 7
      [] c = "8" -> 8 [] c = "9" -> 9 [] OTHER -> 0 - 1

RECURSIVE DecFrom(_, _, _)
DecFrom(s, i, acc) ==
    IF i > Len(s) THEN [ret |-> 0, num |-> acc]
    ELSE IF DigitValue(s[i]) < 0 THEN [ret |-> 0 - 1, num |-> 0]
    ELSE DecFrom(s, i + 1, 10 * acc + DigitValue(s[i]))

\* str_to_uint: a non-empty run of decimal digits
str_to_uint(s) ==
    IF Len(s) = 0 THEN [ret |-> 0 - 1, num |-> 0] ELSE DecFrom(s, 1, 0)

\* str_to_int: an optional minus sign and a non-empty run of decimal digits
str_to_int(s) ==
    IF Len(s) > 0 /\ s[1] = "-"
    THEN LET r == str_to_uint(Tail(s)) IN [ret |-> r.ret, num |-> 0 - r.num]
    ELSE str_to_uint(s)

RECURSIVE DecText(_)
DecText(n) ==
    IF n < 10 THEN <<Digits[n + 1]>>
    ELSE Append(DecText(n \div 10), Digits[(n % 10) + 1])

\* printf("%d") of a number
dec_text(n) == IF n < 0 THEN <<"-">> \o DecText(0 - n) ELSE DecText(n)

\* the position of the k-th tab of s; Len(s) + 1 when there are fewer
TabAt(s, k) ==
    LET tabs == {i \in 1..Len(s) : s[i] = "\t"} IN
    IF k < 1 THEN 0
    ELSE IF k > Cardinality(tabs) THEN Len(s) + 1
    ELSE CHOOSE i \in tabs : Cardinality({j \in tabs : j < i}) = k - 1

\* t_strsplit_tab: the fields between tabs, empty fields kept; no fields for
\* the empty text
t_strsplit_tab(s) ==
    IF Len(s) = 0 THEN <<>>
    ELSE [k \in 1..(Cardinality({i \in 1..Len(s) : s[i] = "\t"}) + 1) |->
            SubSeq(s, TabAt(s, k - 1) + 1, TabAt(s, k) - 1)]

RECURSIVE JoinTab(_)
JoinTab(fs) ==
    IF Len(fs) = 0 THEN <<>>
    ELSE IF Len(fs) = 1 THEN fs[1]
    ELSE fs[1] \o <<"\t">> \o JoinTab(Tail(fs))

LowerCase(c) ==
    CASE c = "A" -> "a" [] c = "B" -> "b" [] c = "C" -> "c" [] c = "D" -> "d"
      [] c = "E" -> "e" [] c = "F" -> "f" [] c = "G" -> "g" [] c = "H" -> "h"
      [] c = "M" -> "m" [] c = "R" -> "r" [] c = "S" -> "s" [] c = "T" -> "t"
      [] OTHER -> c

UpperCase(c) ==
    CASE c = "a" -> "A" [] c = "b" -> "B" [] c = "c" -> "C" [] c = "d" -> "D"
      [] c = "e" -> "E" [] c = "f" -> "F" [] OTHER -> c

t_str_lcase(s) == [i \in 1..Len(s) |-> LowerCase(s[i])]

ToUpper(s) == [i \in 1..Len(s) |-> UpperCase(s[i])]

(***************************************************************************)
(* Stand-ins for the OpenSSL cipher primitives used by the context.         *)
(***************************************************************************)
AES_256_CTR == <<"a","e","s","-","2","5","6","-","c","t","r">>

AES_256_GCM == <<"a","e","s","-","2","5","6","-","g","c","m">>

\* EVP_get_cipherbyname: the cipher of a name, "" when there is none
EVP_get_cipherbyname(name) ==
    IF name = AES_256_CTR THEN "ctr" ELSE IF name = AES_256_GCM THEN "gcm" ELSE ""

EVP_CIPHER_key_length(cipher) == 32

EVP_CIPHER_iv_length(cipher) == IF cipher = "gcm" THEN 12 ELSE 16

EVP_CIPHER_block_size(cipher) == 1

EVP_GCM_TLS_TAG_LEN == 16

\* the key stream byte at position i (counting from 1) of a stream cipher
KeyStream(key, iv, i) == (Fold(key) + 3 * Fold(iv) + 7 * i) % 256

\* EVP_CipherUpdate on data: position by position, continuing after `pos`
CipherBytes(mode, key, iv, pos, data) ==
    [i \in 1..Len(data) |->
        IF mode = 1 THEN (data[i] + KeyStream(key, iv, pos + i)) % 256
        ELSE (data[i] + 256 - KeyStream(key, iv, pos + i)) % 256]

\* the GCM authentication tag of (key, iv, aad, ciphertext)
GcmTag(key, iv, aad, ct) ==
    [i \in 1..EVP_GCM_TLS_TAG_LEN |->
        (Fold(key) + 3 * Fold(iv) + 5 * Fold(aad) + 11 * Fold(ct) + Len(ct) + i) % 256]

(***************************************************************************)
(* struct dcrypt_context_symmetric and its operations.  An operation gives  *)
(* [exit, ret, ...]: exit is "ret" when it returned, "assert" when an       *)
(* i_assert stopped the process, "segv" when it dereferenced NULL.          *)
(***************************************************************************)
None == [set |-> FALSE, data |-> <<>>]

Some(b) == [set |-> TRUE, data |-> b]

\* ctx->ctx == NULL
NoCipherCtx == [live |-> FALSE, inited |-> FALSE, key |-> <<>>, iv |-> <<>>,
                aad |-> <<>>, acc |-> <<>>]

NoSym == [cipher |-> "", ctx |-> NoCipherCtx, key |-> None, iv |-> None,
          aad |-> None, tag |-> None, padding |-> 1, mode |-> 0]

dcrypt_openssl_error == "openssl error"

ctx_sym_create(algorithm, mode) ==
    LET cipher == EVP_get_cipherbyname(algorithm) IN
    IF cipher = ""
    THEN [ret |-> FALSE, ctx |-> NoSym, error |-> "Invalid cipher"]
    ELSE [ret |-> TRUE,
          ctx |-> [NoSym EXCEPT !.cipher = cipher,
                                !.mode = IF mode = "ENCRYPT" THEN 1 ELSE 0],
          error |-> ""]

\* p_malloc gives zeroed memory; memcpy copies the shorter of the two lengths
CopyInto(n, src, len) ==
    [i \in 1..n |-> IF i <= Min(len, n) /\ i <= Len(src) THEN src[i] ELSE 0]

ctx_sym_set_key(c, key, key_len) ==
    [c EXCEPT !.key = Some(CopyInto(EVP_CIPHER_key_length(c.cipher), key, key_len))]

ctx_sym_set_iv(c, iv, iv_len) ==
    [c EXCEPT !.iv = Some(CopyInto(EVP_CIPHER_iv_length(c.cipher), iv, iv_len))]

ctx_sym_set_aad(c, aad) == [c EXCEPT !.aad = Some(aad)]

ctx_sym_set_tag(c, tag) == [c EXCEPT !.tag = Some(tag)]

ctx_sym_set_padding(c, padding) == [c EXCEPT !.padding = IF padding THEN 1 ELSE 0]

\* a get_tag that does not look whether there is a tag
GetTagUnchecked(c) == [ret |-> TRUE, data |-> c.tag.data]

ctx_sym_get_tag(c) ==
    IF ~c.tag.set THEN [ret |-> FALSE, data |-> <<>>]
    ELSE [ret |-> TRUE, data |-> c.tag.data]

ctx_sym_get_key_length(c) == EVP_CIPHER_iv_length(c.cipher)

ctx_sym_get_iv_length(c) == EVP_CIPHER_iv_length(c.cipher)

ctx_sym_get_block_size(c) == EVP_CIPHER_block_size(c.cipher)

\* fault: "none", "ctx_new" (EVP_CIPHER_CTX_new gives NULL), "cipher_init"
\* (EVP_CipherInit_ex fails), "aad" (EVP_CipherUpdate on the AAD fails).
\* acquired: EVP_CIPHER_CTX_new gave a cipher state
ctx_sym_init(c, fault) ==
    IF ~c.key.set \/ ~c.iv.set \/ c.ctx.live
    THEN [exit |-> "assert", ret |-> FALSE, ctx |-> c, error |-> "",
          acquired |-> FALSE]
    ELSE IF fault = "ctx_new"
    THEN [exit |-> "ret", ret |-> FALSE, ctx |-> c, error |-> dcrypt_openssl_error,
          acquired |-> FALSE]
    ELSE IF fault = "cipher_init"
    THEN [exit |-> "ret", ret |-> FALSE,
          ctx |-> [c EXCEPT !.ctx = [NoCipherCtx EXCEPT !.live = TRUE]],
          error |-> dcrypt_openssl_error, acquired |-> TRUE]
    ELSE LET live == [live |-> TRUE, inited |-> TRUE, key |-> c.key.data,
                      iv |-> c.iv.data,
                      aad |-> IF c.aad.set THEN c.aad.data ELSE <<>>,
                      acc |-> <<>>]
         IN
         IF c.aad.set /\ c.cipher # "gcm" /\ Len(c.aad.data) > 0
         THEN \* EVP_CipherUpdate(ctx, NULL, ...) of a stream cipher writes to NULL
              [exit |-> "segv", ret |-> FALSE, ctx |-> [c EXCEPT !.ctx = live],
               error |-> "", acquired |-> TRUE]
         ELSE IF c.aad.set /\ fault = "aad"
         THEN [exit |-> "ret", ret |-> FALSE, ctx |-> [c EXCEPT !.ctx = live],
               error |-> dcrypt_openssl_error, acquired |-> TRUE]
         ELSE [exit |-> "ret", ret |-> TRUE, ctx |-> [c EXCEPT !.ctx = live],
               error |-> "", acquired |-> TRUE]

\* fault: "none" or "update" (EVP_CipherUpdate fails).  On a context whose
\* EVP_CipherInit_ex failed the cipher was never set: EVP_CipherUpdate then
\* fails or dereferences NULL.
ctx_sym_update(c, data, result, fault) ==
    LET block_size == EVP_CIPHER_block_size(c.cipher)
        space == result \o Zeros(Len(data) + block_size)
        out == CipherBytes(c.mode, c.ctx.key, c.ctx.iv, Len(c.ctx.acc), data)
        ct == IF c.mode = 1 THEN out ELSE data
    IN
    IF ~c.ctx.live
    THEN [exit |-> "assert", ret |-> FALSE, ctx |-> c, result |-> result,
          error |-> "", processed |-> FALSE]
    ELSE IF ~c.ctx.inited /\ fault = "none"
    THEN [exit |-> "segv", ret |-> FALSE, ctx |-> c, result |-> space,
          error |-> "", processed |-> TRUE]
    ELSE IF ~c.ctx.inited \/ fault = "update"
    THEN [exit |-> "ret", ret |-> FALSE, ctx |-> c, result |-> space,
          error |-> dcrypt_openssl_error, processed |-> TRUE]
    ELSE [exit |-> "ret", ret |-> TRUE,
          ctx |-> [c EXCEPT !.ctx.acc = @ \o ct],
          result |-> result \o out, error |-> "", processed |-> TRUE]

\* EVP_CIPHER_CTX_ctrl(EVP_CTRL_GCM_SET_TAG): only GCM has the control, and
\* it takes a tag of 1..16 bytes
GcmSetTag(c) ==
    IF c.cipher = "gcm" /\ Len(c.tag.data) >= 1 /\ Len(c.tag.data) <= 16
    THEN 1 ELSE 0

\* an EVP_CipherFinal_ex that does not verify the tag
CipherFinalUnverified(c, tagset, fault) ==
    IF fault = "final" THEN 0
    ELSE IF fault = "final_neg" THEN 0 - 1
    ELSE 1

\* EVP_CipherFinal_ex: nothing is buffered by a stream cipher; GCM decryption
\* verifies the expected tag here and fails when none was set
CipherFinal(c, tagset, fault) ==
    IF fault = "final" THEN 0
    ELSE IF fault = "final_neg" THEN 0 - 1
    ELSE IF c.cipher = "gcm" /\ c.mode = 0
    THEN IF tagset /\ c.tag.data =
                SubSeq(GcmTag(c.ctx.key, c.ctx.iv, c.ctx.aad, c.ctx.acc),
                       1, Len(c.tag.data))
         THEN 1 ELSE 0
    ELSE 1

\* fault: "none", "final" (EVP_CipherFinal_ex gives 0), "final_neg" (gives -1).
\* released: EVP_CIPHER_CTX_free was called on the cipher state
ctx_sym_final(c, result, fault) ==
    LET block_size == EVP_CIPHER_block_size(c.cipher)
        space == result \o Zeros(block_size)
        settag == c.mode = 0 /\ c.tag.set
        tag == IF c.cipher = "gcm"
               THEN GcmTag(c.ctx.key, c.ctx.iv, c.ctx.aad, c.ctx.acc)
               ELSE Zeros(EVP_GCM_TLS_TAG_LEN)
        freed == [c EXCEPT !.ctx = NoCipherCtx]
        Returned(ec2, gettag, ec3) ==
            [exit |-> "ret", ret |-> ec3 = 1,
             ctx |-> IF gettag THEN [freed EXCEPT !.tag = Some(tag)] ELSE freed,
             result |-> IF ec2 = 1 THEN result ELSE space,
             error |-> IF ec3 = 0 THEN "data authentication failed"
                       ELSE IF ec3 < 0 THEN dcrypt_openssl_error ELSE "",
             processed |-> TRUE, released |-> TRUE]
        Recovered(ec2, gettag) ==
            IF gettag /\ c.tag.set
            THEN \* i_assert(ctx->tag == NULL)
                 [exit |-> "assert", ret |-> FALSE, ctx |-> c, result |-> result,
                  error |-> "", processed |-> TRUE, released |-> FALSE]
            ELSE Returned(ec2, gettag,
                          IF gettag THEN (IF c.cipher = "gcm" THEN 1 ELSE 0)
                          ELSE ec2)
        Finalised(ec2) == Recovered(ec2, ec2 = 1 /\ c.mode = 1 /\ c.aad.set)
        Expected(ec1) ==
            Finalised(IF ec1 = 1 THEN CipherFinal(c, settag, fault) ELSE ec1)
    IN
    IF ~c.ctx.live
    THEN [exit |-> "assert", ret |-> FALSE, ctx |-> c, result |-> result,
          error |-> "", processed |-> FALSE, released |-> FALSE]
    ELSE IF ~c.ctx.inited
    THEN \* the cipher was never set: EVP_CipherFinal_ex fails or reads NULL
         [exit |-> IF fault = "none" THEN "segv" ELSE "ret", ret |-> FALSE,
          ctx |-> freed, result |-> space, error |-> "data authentication failed",
          processed |-> TRUE, released |-> TRUE]
    ELSE Expected(IF settag THEN GcmSetTag(c) ELSE 1)

\* a destroy that frees ctx->ctx without looking at it
DestroyAlwaysFrees(c) == [ctx |-> NoSym, released |-> TRUE]

\* ctx_sym_destroy frees the cipher state if there is one, and the pool
ctx_sym_destroy(c) == [ctx |-> NoSym, released |-> c.ctx.live]

(***************************************************************************)
(* A caller driving one symmetric context.                                  *)
(***************************************************************************)
VARIABLES
    sctx,    \* the caller's struct dcrypt_context_symmetric
    shave,   \* the caller holds a context (create .. destroy)
    sres,    \* the caller's result buffer, a fresh one at each init
    swin,    \* "open" from an init that returned TRUE to the next final
    stag,    \* who set ctx->tag: "none", "caller" (set_tag) or "final"
    supd,    \* updates since the last init
    sfin,    \* finals that have returned
    slast,   \* the last call: what it was given and what came of it
    sheap,   \* EVP_CIPHER_CTX_new calls minus EVP_CIPHER_CTX_free calls
    kdest,   \* the text buffer a key record is stored to and loaded from
    kstore,  \* where the record in kdest comes from
    kload,   \* the last load of the record in kdest
    kpair,   \* the last generate_keypair
    kquery   \* the last question asked about a key or a key string

symvars == <<sctx, shave, sres, swin, stag, supd, sfin, slast, sheap>>

keyvars == <<kdest, kstore, kload, kpair, kquery>>

vars == <<sctx, shave, sres, swin, stag, supd, sfin, slast, sheap,
          kdest, kstore, kload, kpair>>

NoCall == [op |-> "none", exit |-> "ret", ret |-> TRUE, error |-> "",
           processed |-> FALSE, used |-> 0]

\* a call, with the used size of the result buffer before it
Call(op) == [NoCall EXCEPT !.op = op, !.used = Len(sres)]

SymAlgorithms == {AES_256_CTR, AES_256_GCM}

SymKeys == {Fill(32, 1)}

SymIvs == {Fill(16, 1)}

SymAads == {<<>>, <<5>>}

SymData == {<<1>>}

SymInitFaults == {"none", "ctx_new", "cipher_init", "aad"}

SymUpdateFaults == {"none", "update"}

SymFinalFaults == {"none", "final", "final_neg"}

\* the process is running (no assertion or fault has stopped it) and the
\* caller has finals left
SymRunning == slast.exit = "ret" /\ sfin < MaxFinals

SymInitState ==
    /\ sctx = NoSym
    /\ shave = FALSE
    /\ sres = <<>>
    /\ swin = "none"
    /\ stag = "none"
    /\ supd = 0
    /\ sfin = 0
    /\ slast = NoCall
    /\ sheap = 0

SymCreate(algorithm, mode) ==
    /\ SymRunning /\ ~shave
    /\ LET r == ctx_sym_create(algorithm, mode) IN
       /\ sctx' = r.ctx
       /\ shave' = r.ret
       /\ slast' = [Call("create") EXCEPT !.ret = r.ret, !.error = r.error]
    /\ sres' = <<>> /\ swin' = "none" /\ stag' = "none" /\ supd' = 0 /\ sfin' = 0
    /\ UNCHANGED sheap
    /\ UNCHANGED keyvars

SymSetKey(key) ==
    /\ SymRunning /\ shave /\ ~sctx.key.set /\ slast.op = "create"
    /\ sctx' = ctx_sym_set_key(sctx, key, Len(key))
    /\ slast' = [NoCall EXCEPT !.op = "set_key"]
    /\ UNCHANGED <<shave, sres, swin, stag, supd, sfin, sheap>>
    /\ UNCHANGED keyvars

SymSetIv(iv) ==
    /\ SymRunning /\ shave /\ ~sctx.iv.set /\ slast.op \in {"create", "set_key"}
    /\ sctx' = ctx_sym_set_iv(sctx, iv, Len(iv))
    /\ slast' = [NoCall EXCEPT !.op = "set_iv"]
    /\ UNCHANGED <<shave, sres, swin, stag, supd, sfin, sheap>>
    /\ UNCHANGED keyvars

SymSetAad(aad) ==
    /\ SymRunning /\ shave /\ ~sctx.aad.set /\ ~sctx.ctx.live
    /\ sctx' = ctx_sym_set_aad(sctx, aad)
    /\ slast' = [NoCall EXCEPT !.op = "set_aad"]
    /\ UNCHANGED <<shave, sres, swin, stag, supd, sfin, sheap>>
    /\ UNCHANGED keyvars

\* the caller sets the tag it expects: the right one for what was
\* encrypted (good), or another one
SymSetTag(good) ==
    /\ SymRunning /\ shave /\ ~sctx.tag.set
    /\ LET right == GcmTag(sctx.key.data, sctx.iv.data,
                           sctx.aad.data, sctx.ctx.acc)
       IN sctx' = ctx_sym_set_tag(sctx, IF good THEN right
                                              ELSE Zeros(EVP_GCM_TLS_TAG_LEN))
    /\ stag' = "caller"
    /\ slast' = [NoCall EXCEPT !.op = "set_tag"]
    /\ UNCHANGED <<shave, sres, swin, supd, sfin, sheap>>
    /\ UNCHANGED keyvars

SymGetTag ==
    /\ slast.exit = "ret" /\ shave /\ slast.op # "get_tag"
    /\ LET r == ctx_sym_get_tag(sctx) IN
       slast' = [Call("get_tag") EXCEPT !.ret = r.ret, !.used = Len(r.data)]
    /\ UNCHANGED <<sctx, shave, sres, swin, stag, supd, sfin, sheap>>
    /\ UNCHANGED keyvars

SymInit(fault) ==
    /\ SymRunning /\ shave
    /\ LET r == ctx_sym_init(sctx, fault) IN
       /\ sctx' = r.ctx
       /\ slast' = [Call("init") EXCEPT !.exit = r.exit, !.ret = r.ret,
                                        !.error = r.error]
       /\ swin' = IF r.exit = "ret" THEN (IF r.ret THEN "open" ELSE "failed")
                  ELSE swin
       /\ sheap' = IF r.acquired THEN sheap + 1 ELSE sheap
    /\ supd' = 0
    /\ sres' = <<>>
    /\ UNCHANGED <<shave, stag, sfin>>
    /\ UNCHANGED keyvars

SymUpdate(data, fault) ==
    /\ SymRunning /\ shave /\ supd < MaxUpdates
    /\ LET r == ctx_sym_update(sctx, data, sres, fault) IN
       /\ sctx' = r.ctx
       /\ sres' = r.result
       /\ slast' = [Call("update") EXCEPT !.exit = r.exit, !.ret = r.ret,
                                          !.error = r.error,
                                          !.processed = r.processed]
    /\ supd' = supd + 1
    /\ UNCHANGED <<shave, swin, stag, sfin, sheap>>
    /\ UNCHANGED keyvars

SymFinal(fault) ==
    /\ SymRunning /\ shave
    /\ LET r == ctx_sym_final(sctx, sres, fault) IN
       /\ sctx' = r.ctx
       /\ sres' = r.result
       /\ slast' = [Call("final") EXCEPT !.exit = r.exit, !.ret = r.ret,
                                         !.error = r.error,
                                         !.processed = r.processed]
       /\ swin' = IF r.exit = "ret" THEN "none" ELSE swin
       /\ sfin' = IF r.exit = "ret" THEN sfin + 1 ELSE sfin
       /\ stag' = IF r.exit = "ret" /\ r.ctx.tag.set /\ ~sctx.tag.set
                  THEN "final" ELSE stag
       /\ sheap' = IF r.released THEN sheap - 1 ELSE sheap
    /\ UNCHANGED <<shave, supd>>
    /\ UNCHANGED keyvars

SymDestroy ==
    /\ slast.exit = "ret" /\ shave
    /\ LET r == ctx_sym_destroy(sctx) IN
       /\ sctx' = r.ctx
       /\ sheap' = IF r.released THEN sheap - 1 ELSE sheap
    /\ shave' = FALSE
    /\ slast' = [NoCall EXCEPT !.op = "destroy"]
    /\ sres' = <<>> /\ swin' = "none" /\ stag' = "none" /\ supd' = 0 /\ sfin' = 0
    /\ UNCHANGED keyvars

SymNext ==
    \/ \E a \in SymAlgorithms, m \in {"ENCRYPT", "DECRYPT"} : SymCreate(a, m)
    \/ \E k \in SymKeys : SymSetKey(k)
    \/ \E i \in SymIvs : SymSetIv(i)
    \/ \E a \in SymAads : SymSetAad(a)
    \/ \E g \in BOOLEAN : SymSetTag(g)
    \/ SymGetTag
    \/ \E f \in SymInitFaults : SymInit(f)
    \/ \E d \in SymData, f \in SymUpdateFaults : SymUpdate(d, f)
    \/ \E f \in SymFinalFaults : SymFinal(f)
    \/ SymDestroy

(***************************************************************************)
(* Keys, and stand-ins for the OpenSSL key primitives.  An EVP_PKEY is      *)
(* [type, nid, d, q]: d the private part (0 when there is none), q the      *)
(* public part.  The EC group is the integers modulo GroupOrder under       *)
(* addition, so that d * G and ECDH commute as on a curve.                  *)
(***************************************************************************)
NID_undef == 0

NID_rsaEncryption == 6

NID_X9_62_prime256v1 == 415

GroupOrder == 251

Generator == 3

\* a NULL key handle
NoKey == [type |-> "NULL", nid |-> 0, d |-> 0, q |-> 0]

\* EVP_PKEY_base_id of a key handle that is not NULL
EVP_PKEY_base_id(key) == key.type

EcPoint(d) == (d * Generator) % GroupOrder

RsaModulus(d) == (17 * d) % GroupOrder

EcKey(d) == [type |-> "EC", nid |-> NID_X9_62_prime256v1, d |-> d, q |-> EcPoint(d)]

RsaKey(d) == [type |-> "RSA", nid |-> NID_rsaEncryption, d |-> d, q |-> RsaModulus(d)]

\* the private keys a caller can hold
PrivateKeys == {EcKey(d) : d \in 1..MaxScalar} \cup {RsaKey(d) : d \in 1..MaxScalar}

OID_rsaEncryption ==
    <<"1",".","2",".","8","4","0",".","1","1","3","5","4","9",".","1",".","1",".","1">>

OID_prime256v1 ==
    <<"1",".","2",".","8","4","0",".","1","0","0","4","5",".","3",".","1",".","7">>

SN_prime256v1 == <<"p","r","i","m","e","2","5","6","v","1">>

SN_unknown == <<"n","o","n","e">>

\* OBJ_sn2nid
OBJ_sn2nid(sn) == IF sn = SN_prime256v1 THEN NID_X9_62_prime256v1 ELSE NID_undef

\* OBJ_obj2txt(.., no_name = 1) of OBJ_nid2obj(nid): the dotted OID
OBJ_nid2txt(nid) ==
    IF nid = NID_rsaEncryption THEN OID_rsaEncryption
    ELSE IF nid = NID_X9_62_prime256v1 THEN OID_prime256v1
    ELSE <<>>

\* OBJ_txt2nid
OBJ_txt2nid(txt) ==
    IF txt = OID_rsaEncryption THEN NID_rsaEncryption
    ELSE IF txt = OID_prime256v1 \/ txt = SN_prime256v1 THEN NID_X9_62_prime256v1
    ELSE NID_undef

\* EVP_PKEY_type(nid)
EVP_PKEY_type(nid) ==
    IF nid = NID_rsaEncryption THEN "RSA"
    ELSE IF nid = NID_X9_62_prime256v1 THEN "EC" ELSE "NONE"

\* EC_KEY_new_by_curve_name gives NULL for a nid that is no curve
EC_KEY_new_by_curve_name(nid) == nid = NID_X9_62_prime256v1

\* EC_POINT_point2oct(POINT_CONVERSION_COMPRESSED): a sign byte and X
EC_POINT_point2oct(q) == <<2 + (q % 2), q>>

\* EC_POINT_oct2point: -1 when the octets are no point of the group
EC_POINT_oct2point(oct) ==
    IF Len(oct) = 2 /\ oct[1] = 2 + (oct[2] % 2) /\ oct[2] < GroupOrder
    THEN oct[2] ELSE 0 - 1

\* EC_KEY_check_key: the public point is not the point at infinity, and the
\* private scalar, when there is one, is in range and gives the public point
EC_KEY_check_key(k) ==
    /\ k.q > 0 /\ k.q < GroupOrder
    /\ k.d # 0 => (k.d > 0 /\ k.d < GroupOrder /\ EcPoint(k.d) = k.q)

\* EVP_PKEY_derive: the X coordinate of d * Q
EVP_PKEY_derive(d, q) == <<(d * q) % GroupOrder>>

\* i2d_PUBKEY: DER SubjectPublicKeyInfo
i2d_PUBKEY(k) ==
    IF k.type = "EC" THEN <<48, 2, k.nid % 256, k.q>> ELSE <<48, 1, k.q>>

\* i2d_RSAPrivateKey: DER RSAPrivateKey
i2d_RSAPrivateKey(k) == <<48, 3, k.d>>

\* d2i_RSAPrivateKey followed by RSA_check_key: NoKey when either fails
d2i_RSAPrivateKey(der) ==
    IF Len(der) = 3 /\ der[1] = 48 /\ der[2] = 3 /\ der[3] > 0 /\ der[3] < GroupOrder
    THEN RsaKey(der[3]) ELSE NoKey

\* numbers from the group order up all fail EC_KEY_check_key alike: the
\* bignum stand-ins stop counting there
BnCap(n) == IF n > GroupOrder THEN GroupOrder ELSE n

RECURSIVE HexRun(_, _)
\* the number of hex digits of s from position i on
HexRun(s, i) ==
    IF i > Len(s) \/ HexValue(s[i]) < 0 THEN 0 ELSE 1 + HexRun(s, i + 1)

RECURSIVE BnFromHex(_, _, _, _)
BnFromHex(s, i, n, acc) ==
    IF n = 0 THEN acc
    ELSE BnFromHex(s, i + 1, n - 1, BnCap(16 * acc + HexValue(s[i])))

\* BN_hex2bn: an optional minus sign and the hex digits that follow; gives
\* the number of characters read, 0 when there is no digit
BN_hex2bn(s) ==
    LET neg == Len(s) > 0 /\ s[1] = "-"
        from == IF neg THEN 2 ELSE 1
        n == HexRun(s, from)
        v == BnFromHex(s, from, n, 0)
    IN IF n = 0 THEN [len |-> 0, num |-> 0]
       ELSE [len |-> n + from - 1, num |-> IF neg THEN 0 - v ELSE v]

RECURSIVE BnFromBin(_, _, _)
BnFromBin(b, i, acc) ==
    IF i > Len(b) THEN acc ELSE BnFromBin(b, i + 1, BnCap(256 * acc + b[i]))

\* BN_bin2bn: big-endian magnitude
BN_bin2bn(b) == BnFromBin(b, 1, 0)

\* BN_bn2mpi: a four byte big-endian length and the magnitude, with a leading
\* zero byte when its top bit is set
BN_bn2mpi(n) ==
    IF n = 0 THEN <<0, 0, 0, 0>>
    ELSE IF n < 128 THEN <<0, 0, 0, 1, n>>
    ELSE <<0, 0, 0, 2, 0, n>>

\* BN_mpi2bn: a four byte length, then the magnitude with the sign in its
\* top bit; not ok when the length does not fit the data
BN_mpi2bn(mpi) ==
    IF Len(mpi) < 4 \/ mpi[1] # 0 \/ mpi[2] # 0 THEN [ok |-> FALSE, num |-> 0]
    ELSE IF mpi[3] * 256 + mpi[4] # Len(mpi) - 4 THEN [ok |-> FALSE, num |-> 0]
    ELSE IF Len(mpi) = 4 THEN [ok |-> TRUE, num |-> 0]
    ELSE LET mag == BN_bin2bn(<<mpi[5] % 128>> \o SubSeq(mpi, 6, Len(mpi)))
         IN [ok |-> TRUE, num |-> IF mpi[5] >= 128 THEN 0 - mag ELSE mag]

\* RSA-OAEP under the public key q
RsaOaepEncrypt(q, data) ==
    <<q>> \o [i \in 1..Len(data) |-> (data[i] + q) % 256]

\* RSA-OAEP under the private key d: ok only for what was encrypted to it
RsaOaepDecrypt(d, ct) ==
    IF Len(ct) >= 1 /\ ct[1] = RsaModulus(d)
    THEN [ok |-> TRUE,
          data |-> [i \in 1..(Len(ct) - 1) |-> (ct[i + 1] + 256 - ct[1]) % 256]]
    ELSE [ok |-> FALSE, data |-> <<>>]

SHA256_DIGEST_LENGTH == 32

SHA256_TEXT == <<"s","h","a","2","5","6">>

SHA1_TEXT == <<"s","h","a","1">>

\* EVP_get_digestbyname: "" when there is no such digest
EVP_get_digestbyname(name) ==
    IF name = SHA256_TEXT THEN "sha256" ELSE IF name = SHA1_TEXT THEN "sha1" ELSE ""

EVP_MD_size(md) == IF md = "sha1" THEN 20 ELSE SHA256_DIGEST_LENGTH

\* the digest of x under md
Digest(md, x) ==
    [i \in 1..EVP_MD_size(md) |->
        IF Len(x) = 0 THEN (7 * i + EVP_MD_size(md)) % 256
        ELSE (3 * x[((i - 1) % Len(x)) + 1] + Fold(x) + 7 * i + Len(x)
              + EVP_MD_size(md)) % 256]

SHA256(x) == Digest("sha256", x)

\* a key derivation that is given the password with length 0
PBKDF2_NoPassword(password, salt, rounds, md, len) ==
    [i \in 1..len |->
        (5 * Fold(salt) + rounds + 11 * EVP_MD_size(md) + 13 * i) % 256]

\* PKCS5_PBKDF2_HMAC
PKCS5_PBKDF2_HMAC(password, salt, rounds, md, len) ==
    [i \in 1..len |->
        (3 * Fold(password) + 5 * Fold(salt) + Len(password) + rounds
         + 11 * EVP_MD_size(md) + 13 * i) % 256]

\* the byte of a character: hex digits of either case, "?" for any other
Ord(c) ==
    IF c \in {"A", "B", "C", "D", "E", "F"} THEN 55 + HexValue(c)
    ELSE IF HexValue(c) >= 10 THEN 87 + HexValue(c)
    ELSE IF HexValue(c) >= 0 THEN 48 + HexValue(c)
    ELSE 63

TextBytes(s) == [i \in 1..Len(s) |-> Ord(s[i])]

\* random_fill: n bytes, r naming the outcome
random_fill(n, r) == Fill(n, 16 * r + 1)

(***************************************************************************)
(* Key generation.                                                          *)
(***************************************************************************)
\* fault "keygen": the EVP_PKEY_* generation calls fail; r names the key drawn
generate_ec_key(nid, r, fault) ==
    IF fault = "keygen" \/ nid # NID_X9_62_prime256v1
    THEN [ret |-> FALSE, key |-> NoKey, error |-> dcrypt_openssl_error]
    ELSE [ret |-> TRUE, key |-> EcKey(r), error |-> ""]

generate_rsa_key(bits, r, fault) ==
    IF fault = "keygen" \/ bits < 1
    THEN [ret |-> FALSE, key |-> NoKey, error |-> dcrypt_openssl_error]
    ELSE [ret |-> TRUE, key |-> RsaKey(r), error |-> ""]

\* EVP_PKEY_base_id of a NULL handle reads through NULL
private_to_public_key(priv_key) ==
    IF priv_key.type = "NULL"
    THEN [exit |-> "segv", ret |-> FALSE, pub |-> NoKey, error |-> ""]
    ELSE IF priv_key.type \in {"RSA", "EC"}
    THEN [exit |-> "ret", ret |-> TRUE, pub |-> [priv_key EXCEPT !.d = 0],
          error |-> ""]
    ELSE [exit |-> "ret", ret |-> FALSE, pub |-> NoKey,
          error |-> "Invalid private key"]

\* the shared tail of both branches of generate_keypair: r is what the
\* generator returned, taken as success when it compares equal to 0
KeypairOf(r) ==
    LET Derived(p) ==
            [exit |-> p.exit, ret |-> p.ret, priv |-> r.key, pub |-> p.pub,
             error |-> p.error]
    IN
    IF r.ret = FALSE
    THEN Derived(private_to_public_key(r.key))
    ELSE [exit |-> "ret", ret |-> FALSE, priv |-> NoKey, pub |-> NoKey,
          error |-> dcrypt_openssl_error]

generate_keypair(kind, bits, curve, r, fault) ==
    IF kind = "RSA" THEN KeypairOf(generate_rsa_key(bits, r, fault))
    ELSE IF kind = "EC"
    THEN LET nid == OBJ_sn2nid(curve) IN
         IF nid = NID_undef
         THEN [exit |-> "ret", ret |-> FALSE, priv |-> NoKey, pub |-> NoKey,
               error |-> "Unknown EC curve"]
         ELSE KeypairOf(generate_ec_key(nid, r, fault))
    ELSE [exit |-> "ret", ret |-> FALSE, priv |-> NoKey, pub |-> NoKey,
          error |-> "Key type not supported in this build"]

(***************************************************************************)
(* Key identifiers, key derivation and the asymmetric operations.  A fault  *)
(* names the backend call that fails while the operation runs:              *)
(*   "der" i2d_PUBKEY_bio, "digest" EVP_Digest*, "pbkdf2" PKCS5_PBKDF2_HMAC,*)
(*   "rsa" EVP_PKEY_encrypt/decrypt, "derive" EVP_PKEY_derive*,             *)
(*   "keygen" EVP_PKEY_keygen, "oid" OBJ_obj2txt, "serialize"               *)
(*   i2d_RSAPrivateKey, and the faults of the symmetric context.            *)
(***************************************************************************)
\* a failed digest leaves ec = dcrypt_openssl_error(..) = FALSE = 0, and the
\* function returns ec == 0
public_key_id(key, algorithm, result, fault) ==
    LET md == EVP_get_digestbyname(algorithm) IN
    IF md = ""
    THEN [ret |-> FALSE, result |-> result, error |-> "Unknown cipher"]
    ELSE IF key.type = "NULL"
    THEN [ret |-> FALSE, result |-> result, error |-> "key is NULL"]
    ELSE IF fault = "der"
    THEN [ret |-> FALSE, result |-> result, error |-> dcrypt_openssl_error]
    ELSE IF fault = "digest"
    THEN [ret |-> TRUE, result |-> result, error |-> dcrypt_openssl_error]
    ELSE [ret |-> TRUE, result |-> result \o Digest(md, i2d_PUBKEY(key)),
          error |-> ""]

pbkdf2(password, salt, hash, rounds, result, result_len, fault) ==
    LET md == EVP_get_digestbyname(hash) IN
    IF rounds = 0 \/ result_len = 0
    THEN [exit |-> "assert", ret |-> FALSE, result |-> result, error |-> ""]
    ELSE IF md = ""
    THEN [exit |-> "ret", ret |-> FALSE, result |-> result,
          error |-> "Invalid digest"]
    ELSE IF fault = "pbkdf2"
    THEN [exit |-> "ret", ret |-> FALSE, result |-> result,
          error |-> dcrypt_openssl_error]
    ELSE [exit |-> "ret", ret |-> TRUE,
          result |-> result \o PKCS5_PBKDF2_HMAC(password, salt, rounds, md,
                                                 result_len),
          error |-> ""]

rsa_encrypt(key, data, result, fault) ==
    IF key.type # "RSA" \/ fault = "rsa"
    THEN [ret |-> FALSE, result |-> result, error |-> dcrypt_openssl_error]
    ELSE [ret |-> TRUE, result |-> result \o RsaOaepEncrypt(key.q, data),
          error |-> ""]

rsa_decrypt(key, data, result, fault) ==
    LET r == RsaOaepDecrypt(key.d, data) IN
    IF key.type # "RSA" \/ key.d = 0 \/ fault = "rsa" \/ ~r.ok
    THEN [ret |-> FALSE, result |-> result, error |-> dcrypt_openssl_error]
    ELSE [ret |-> TRUE, result |-> result \o r.data, error |-> ""]

\* the group of the local key is read without looking at its type: a NULL
\* or non-EC key has none to read
ecdh_derive_secret_local(local_key, R, S, fault) ==
    LET pub == EC_POINT_oct2point(R) IN
    IF local_key.type # "EC"
    THEN [exit |-> "segv", ret |-> FALSE, S |-> S, error |-> ""]
    ELSE IF pub < 0
              \/ ~EC_KEY_check_key([type |-> "EC", nid |-> local_key.nid,
                                    d |-> 0, q |-> pub])
              \/ local_key.d = 0 \/ fault = "derive"
    THEN [exit |-> "ret", ret |-> FALSE, S |-> S, error |-> dcrypt_openssl_error]
    ELSE [exit |-> "ret", ret |-> TRUE,
          S |-> S \o EVP_PKEY_derive(local_key.d, pub), error |-> ""]

\* r names the ephemeral key drawn
ecdh_derive_secret_peer(peer_key, R, S, r, fault) ==
    LET local == generate_ec_key(peer_key.nid, r, fault) IN
    IF peer_key.type = "NULL"
    THEN [exit |-> "segv", ret |-> FALSE, R |-> R, S |-> S, error |-> ""]
    ELSE IF peer_key.type # "EC"
    THEN [exit |-> "ret", ret |-> FALSE, R |-> R, S |-> S,
          error |-> "Only ECC key can be used"]
    ELSE IF ~local.ret
    THEN [exit |-> "ret", ret |-> FALSE, R |-> R, S |-> S, error |-> local.error]
    ELSE IF fault = "derive"
    THEN [exit |-> "ret", ret |-> FALSE, R |-> R, S |-> S,
          error |-> dcrypt_openssl_error]
    ELSE [exit |-> "ret", ret |-> TRUE,
          R |-> R \o EC_POINT_point2oct(local.key.q),
          S |-> S \o EVP_PKEY_derive(local.key.d, peer_key.q), error |-> ""]

(***************************************************************************)
(* The Dovecot v2 private-key format: encryption of the key material.       *)
(***************************************************************************)
SymFault(fault, faults) == IF fault \in faults THEN fault ELSE "none"

\* key and IV are taken from what PBKDF2 gives; no AAD is set and no tag is
\* read or set.  asked is the length PBKDF2 was asked for (0 when it was not
\* called), dctx the context as it is when it is destroyed, unwiped the
\* buffers that hold secret bytes at the return: tmp is cleared with
\* safe_memset, the data of key_data is detached and left as it is.
cipher_key_dovecot_v2(cipher, mode, input, secret, salt, digalgo, rounds, result_r, fault) ==
    LET Failed(r, c, asked, unwiped) ==
            [exit |-> r.exit, ret |-> FALSE, result |-> result_r, error |-> r.error,
             dctx |-> c, asked |-> asked, unwiped |-> unwiped]
        Finalised(fr, asked) ==
            IF fr.exit # "ret" \/ ~fr.ret THEN Failed(fr, fr.ctx, asked, {"key_data"})
            ELSE [exit |-> "ret", ret |-> TRUE, result |-> result_r \o fr.result,
                  error |-> "", dctx |-> fr.ctx, asked |-> asked,
                  unwiped |-> {"key_data"}]
        Updated(ur, asked) ==
            IF ur.exit # "ret" \/ ~ur.ret THEN Failed(ur, ur.ctx, asked, {"key_data"})
            ELSE Finalised(ctx_sym_final(ur.ctx, ur.result,
                                         SymFault(fault, {"final", "final_neg"})),
                           asked)
        Inited(ir, asked) ==
            IF ir.exit # "ret" \/ ~ir.ret THEN Failed(ir, ir.ctx, asked, {"key_data"})
            ELSE Updated(ctx_sym_update(ir.ctx, input, <<>>,
                                        SymFault(fault, {"update"})),
                         asked)
        Derived(c, klen, ivlen, kr) ==
            IF kr.exit # "ret" \/ ~kr.ret THEN Failed(kr, c, klen + ivlen, {})
            ELSE Inited(ctx_sym_init(
                            ctx_sym_set_iv(ctx_sym_set_key(c, kr.result, klen),
                                           SubSeq(kr.result, klen + 1, Len(kr.result)),
                                           ivlen),
                            SymFault(fault, {"ctx_new", "cipher_init"})),
                        klen + ivlen)
        Sized(c, klen, ivlen) ==
            Derived(c, klen, ivlen,
                    pbkdf2(secret, salt, digalgo, rounds, <<>>, klen + ivlen, fault))
        Created(cr) ==
            IF ~cr.ret
            THEN [exit |-> "ret", ret |-> FALSE, result |-> result_r,
                  error |-> cr.error, dctx |-> cr.ctx, asked |-> 0, unwiped |-> {}]
            ELSE Sized(cr.ctx, ctx_sym_get_key_length(cr.ctx),
                       ctx_sym_get_iv_length(cr.ctx))
    IN Created(ctx_sym_create(cipher, mode))

DCRYPT_DOVECOT_KEY_ENCRYPT_HASH == SHA256_TEXT

DCRYPT_DOVECOT_KEY_ENCRYPT_ROUNDS == 2048

DCRYPT_DOVECOT_KEY_ENCRYPT_NONE == 0

DCRYPT_DOVECOT_KEY_ENCRYPT_PK == 1

DCRYPT_DOVECOT_KEY_ENCRYPT_PASSWORD == 2

\* the secret of a key-wrapped record and what is stored to recover it
WrapSecret(enc_key, r, fault) ==
    LET Encrypted(secret, e) ==
            [exit |-> "ret", ret |-> e.ret, peer_key |-> e.result,
             secret |-> secret, error |-> e.error]
        Drawn(secret) == Encrypted(secret, rsa_encrypt(enc_key, secret, <<>>, fault))
        Derived(e) ==
            [exit |-> e.exit, ret |-> e.ret, peer_key |-> e.R, secret |-> e.S,
             error |-> e.error]
    IN
    IF enc_key.type = "RSA" THEN Drawn(random_fill(16, r))
    ELSE IF enc_key.type = "EC"
    THEN Derived(ecdh_derive_secret_peer(enc_key, <<>>, <<>>, r, fault))
    ELSE [exit |-> IF enc_key.type = "NULL" THEN "segv" ELSE "ret", ret |-> FALSE,
          peer_key |-> <<>>, secret |-> <<>>,
          error |-> "Unsupported encryption key"]

encrypt_private_key_dovecot(key, enctype, cipher, password, enc_key, destination, r, fault) ==
    LET Identified(ck, wrapped, id) ==
            IF ~id.ret
            THEN [exit |-> "ret", ret |-> FALSE, destination |-> wrapped,
                  error |-> id.error]
            ELSE [exit |-> "ret", ret |-> ck.ret,
                  destination |-> wrapped \o binary_to_hex(id.result),
                  error |-> ck.error]
        Appended(head, w, ck, body) ==
            IF ck.exit # "ret"
            THEN [exit |-> ck.exit, ret |-> FALSE, destination |-> head,
                  error |-> ""]
            ELSE IF enctype # DCRYPT_DOVECOT_KEY_ENCRYPT_PK
            THEN [exit |-> "ret", ret |-> ck.ret, destination |-> body,
                  error |-> ck.error]
            ELSE Identified(ck,
                            body \o <<"\t">> \o binary_to_hex(w.peer_key)
                                 \o <<"\t">>,
                            public_key_id(enc_key, SHA256_TEXT, <<>>, fault))
        Ciphered(head, w, ck) ==
            Appended(head, w, ck, head \o binary_to_hex(ck.result))
        Secret(lcipher, salt, head, w) ==
            IF w.exit # "ret" \/ ~w.ret
            THEN [exit |-> w.exit, ret |-> FALSE, destination |-> head,
                  error |-> w.error]
            ELSE Ciphered(head, w,
                          cipher_key_dovecot_v2(lcipher, "ENCRYPT", key, w.secret,
                                                salt,
                                                DCRYPT_DOVECOT_KEY_ENCRYPT_HASH,
                                                DCRYPT_DOVECOT_KEY_ENCRYPT_ROUNDS,
                                                <<>>, fault))
        Headed(lcipher, salt, head) ==
            Secret(lcipher, salt, head,
                   IF enctype = DCRYPT_DOVECOT_KEY_ENCRYPT_PK
                   THEN WrapSecret(enc_key, r, fault)
                   ELSE [exit |-> "ret", ret |-> TRUE, peer_key |-> <<>>,
                         secret |-> IF enctype = DCRYPT_DOVECOT_KEY_ENCRYPT_PASSWORD
                                    THEN TextBytes(password) ELSE <<>>,
                         error |-> ""])
        Salted(lcipher, salt) ==
            Headed(lcipher, salt,
                   destination \o lcipher \o <<"\t">> \o binary_to_hex(salt)
                       \o <<"\t">> \o DCRYPT_DOVECOT_KEY_ENCRYPT_HASH \o <<"\t">>
                       \o dec_text(DCRYPT_DOVECOT_KEY_ENCRYPT_ROUNDS) \o <<"\t">>)
    IN Salted(t_str_lcase(cipher), random_fill(8, r))

(***************************************************************************)
(* store_private_key_dovecot.  A text argument that may be NULL is None or  *)
(* Some(text).                                                              *)
(***************************************************************************)
ECDH_PREFIX == <<"e","c","d","h","-">>

\* strncasecmp(cipher, "ecdh-", 5) == 0
HasEcdhPrefix(cipher) ==
    Len(cipher) >= 5 /\ t_str_lcase(SubSeq(cipher, 1, 5)) = ECDH_PREFIX

\* buffer_set_used_size to a smaller size
buffer_set_used_size(buf, used) == SubSeq(buf, 1, used)

\* a failure return that leaves what was appended
StoreFailedKeepsText(destination, dest_used, error) ==
    [exit |-> "ret", ret |-> FALSE, destination |-> destination, error |-> error]

\* a failure return after text was appended: the destination is cut back to
\* its used size at the call
StoreFailed(destination, dest_used, error) ==
    [exit |-> "ret", ret |-> FALSE,
     destination |-> buffer_set_used_size(destination, dest_used),
     error |-> error]

\* bytes found after an arbitrary address
StaleBytes == <<0, 0, 0>>

\* i2d_RSAPrivateKey(rsa, &ptr) with ptr never initialised.  ub is what ptr
\* happens to hold: "null" (the encoding is allocated and ptr set to it),
\* "stale" (the encoding is written over some memory and ptr moved past it, to
\* the bytes that follow), "segv" (the address is not writable)
SerializeRsa(key, ub) == IF ub = "null" THEN i2d_RSAPrivateKey(key) ELSE StaleBytes

store_private_key_dovecot(key, cipher, destination, password, enc_key, r, fault, ub) ==
    LET dest_used == Len(destination)
        Identified(body, id) ==
            IF ~id.ret
            THEN StoreFailed(body \o <<"\t">> \o binary_to_hex(id.result),
                             dest_used, id.error)
            ELSE [exit |-> "ret", ret |-> TRUE,
                  destination |-> body \o <<"\t">> \o binary_to_hex(id.result),
                  error |-> ""]
        Derived(body, p) ==
            IF ~p.ret THEN StoreFailed(body, dest_used, p.error)
            ELSE Identified(body, public_key_id(p.pub, SHA256_TEXT, <<>>, fault))
        Encrypted(e) ==
            IF e.exit # "ret"
            THEN [exit |-> e.exit, ret |-> FALSE, destination |-> e.destination,
                  error |-> ""]
            ELSE IF ~e.ret THEN StoreFailed(e.destination, dest_used, e.error)
            ELSE Derived(e.destination, private_to_public_key(key))
        Appended(enctype, cipher2, buf, head) ==
            IF enctype > 0
            THEN Encrypted(encrypt_private_key_dovecot(buf, enctype, cipher2,
                                                       password.data, enc_key,
                                                       head, r, fault))
            ELSE Derived(head \o binary_to_hex(buf), private_to_public_key(key))
        Chosen(objtxt, enctype, cipher2) ==
            Appended(enctype, cipher2,
                     IF key.type = "RSA" THEN SerializeRsa(key, ub)
                     ELSE BN_bn2mpi(key.d),
                     destination \o <<"2", "\t">> \o objtxt \o <<"\t">>
                         \o dec_text(enctype) \o <<"\t">>)
        Serialized(objtxt, ecdh) ==
            IF (ecdh /\ (enc_key.type = "NULL" \/ password.set))
                  \/ (~ecdh /\ cipher.set /\ (enc_key.type # "NULL" \/ ~password.set))
            THEN [exit |-> "assert", ret |-> FALSE, destination |-> destination,
                  error |-> ""]
            ELSE Chosen(objtxt,
                        IF ecdh THEN DCRYPT_DOVECOT_KEY_ENCRYPT_PK
                        ELSE IF cipher.set THEN DCRYPT_DOVECOT_KEY_ENCRYPT_PASSWORD
                        ELSE DCRYPT_DOVECOT_KEY_ENCRYPT_NONE,
                        IF ecdh THEN SubSeq(cipher.data, 6, Len(cipher.data))
                        ELSE cipher.data)
        Named(objtxt) ==
            IF fault = "oid" \/ Len(objtxt) < 1
            THEN [exit |-> "ret", ret |-> FALSE, destination |-> destination,
                  error |-> dcrypt_openssl_error]
            ELSE IF key.type = "RSA" /\ fault = "serialize"
            THEN [exit |-> "ret", ret |-> FALSE, destination |-> destination,
                  error |-> dcrypt_openssl_error]
            ELSE IF key.type = "RSA" /\ ub = "segv"
            THEN [exit |-> "segv", ret |-> FALSE, destination |-> destination,
                  error |-> ""]
            ELSE IF key.type \notin {"RSA", "EC"}
            THEN [exit |-> "ret", ret |-> FALSE, destination |-> destination,
                  error |-> ""]
            ELSE Serialized(objtxt, cipher.set /\ HasEcdhPrefix(cipher.data))
    IN
    IF key.type = "NULL"
    THEN [exit |-> "segv", ret |-> FALSE, destination |-> destination, error |-> ""]
    ELSE Named(OBJ_nid2txt(key.nid))

(***************************************************************************)
(* load_private_key_dovecot, v2 records.  A load gives [exit, ret, key,     *)
(* error, ops]: key is what *key_r holds afterwards, ops the key operations *)
(* the load went through, in order.                                         *)
(***************************************************************************)
LoadFailed(error, ops) ==
    [exit |-> "ret", ret |-> FALSE, key |-> NoKey, error |-> error, ops |-> ops]

LoadStopped(exit, ops) ==
    [exit |-> exit, ret |-> FALSE, key |-> NoKey, error |-> "", ops |-> ops]

\* strcmp(binary_to_hex(id), field) == 0
KeyIdEquals(id, field) == binary_to_hex(id) = field

\* "decode actual key": the key of type nid held in key_data, NoKey when the
\* data is none or the key does not check
DecodeKeyV2(nid, key_data) ==
    LET Built(point, eckey) ==
            IF ~point.ok \/ ~EC_KEY_new_by_curve_name(nid)
               \/ ~EC_KEY_check_key(eckey) \/ point.num = 0
            THEN NoKey ELSE eckey
        Read(point) ==
            Built(point, [type |-> "EC", nid |-> nid, d |-> point.num,
                          q |-> EcPoint(IF point.num < 0 THEN 0 ELSE point.num)])
    IN
    IF EVP_PKEY_type(nid) = "RSA" THEN d2i_RSAPrivateKey(key_data)
    ELSE Read(BN_mpi2bn(key_data))

\* "finally compare key to key id": the results of deriving the public key
\* and of computing its id are not looked at; pending is the error text set
\* before
FinishLoadV2(nid, key_data, last, ops, pending, fault) ==
    LET Identified(key, id) ==
            IF ~KeyIdEquals(id.result, last)
            THEN LoadFailed("Key id mismatch after load", Append(ops, "key_id"))
            ELSE [exit |-> "ret", ret |-> TRUE, key |-> key, error |-> pending,
                  ops |-> Append(ops, "key_id")]
        Derived(key, p) ==
            Identified(key, public_key_id(p.pub, SHA256_TEXT, <<>>, fault))
        Decoded(key) ==
            IF key.type = "NULL" THEN LoadFailed(dcrypt_openssl_error, ops)
            ELSE Derived(key, private_to_public_key(key))
    IN Decoded(DecodeKeyV2(nid, key_data))

\* enctype 1: the record is encrypted to a key
LoadV2Pk(nid, input, dec_key, fault) ==
    LET isrsa == dec_key.type = "RSA"
        ops1 == <<"enc_key_id">>
        ops2 == Append(ops1, IF isrsa THEN "rsa_decrypt" ELSE "ecdh")
        ops3 == Append(ops2, "cipher")
        Deciphered(ck) ==
            IF ck.exit # "ret" THEN LoadStopped(ck.exit, ops3)
            ELSE IF ~ck.ret THEN LoadFailed(ck.error, ops3)
            ELSE FinishLoadV2(nid, ck.result, input[11], ops3, "", fault)
        Recovered(rounds, rsa, ecdh) ==
            IF isrsa /\ ~rsa.ret THEN LoadFailed(rsa.error, ops2)
            ELSE IF ~isrsa /\ ecdh.exit # "ret" THEN LoadStopped(ecdh.exit, ops2)
            ELSE IF ~isrsa /\ ~ecdh.ret THEN LoadFailed(ecdh.error, ops2)
            ELSE Deciphered(cipher_key_dovecot_v2(
                                input[4], "DECRYPT", hex_to_binary(input[8]).data,
                                IF isrsa THEN rsa.result ELSE ecdh.S,
                                hex_to_binary(input[5]).data, input[6], rounds.num,
                                <<>>, fault))
        Wrapped(rounds, peer_key) ==
            Recovered(rounds, rsa_decrypt(dec_key, peer_key, <<>>, fault),
                      ecdh_derive_secret_local(dec_key, peer_key, <<>>, fault))
        Identified(rounds, p, id) ==
            IF ~p.ret \/ ~id.ret
            THEN LoadFailed(IF ~p.ret THEN p.error ELSE id.error, <<>>)
            ELSE IF ~KeyIdEquals(id.result, input[10])
            THEN LoadFailed("No private key available", ops1)
            ELSE Wrapped(rounds, hex_to_binary(input[9]).data)
        Derived(rounds, p) ==
            IF p.exit # "ret" THEN LoadStopped(p.exit, <<>>)
            ELSE Identified(rounds, p,
                            public_key_id(p.pub, SHA256_TEXT, <<>>, fault))
        Counted(rounds) ==
            IF rounds.ret # 0 THEN LoadFailed("Corrupted data", <<>>)
            ELSE Derived(rounds, private_to_public_key(dec_key))
    IN Counted(str_to_uint(input[7]))

\* enctype 2: the record is encrypted with a password
LoadV2Password(nid, input, password, fault) ==
    LET Deciphered(ck) ==
            IF ck.exit # "ret" THEN LoadStopped(ck.exit, <<"cipher">>)
            ELSE IF ~ck.ret THEN LoadFailed(ck.error, <<"cipher">>)
            ELSE FinishLoadV2(nid, ck.result, input[9], <<"cipher">>, "", fault)
        Decoded(rounds, salt, data) ==
            IF salt.ret # 0 \/ data.ret # 0 THEN LoadFailed("Corrupted data", <<>>)
            ELSE Deciphered(cipher_key_dovecot_v2(
                                input[4], "DECRYPT", data.data,
                                TextBytes(password.data), salt.data, input[6],
                                rounds.num, <<>>, fault))
        Counted(rounds) ==
            IF rounds.ret # 0 THEN LoadFailed("Corrupted data", <<>>)
            ELSE IF ~password.set THEN LoadStopped("segv", <<>>)
            ELSE Decoded(rounds, hex_to_binary(input[5]), hex_to_binary(input[8]))
    IN Counted(str_to_uint(input[7]))

\* a v2 load that resolves the key type before it looks at the shape
LoadV2TypeFirst(len, input, password, dec_key, fault) ==
    IF OBJ_txt2nid(input[2]) = NID_undef
    THEN LoadFailed(dcrypt_openssl_error, <<>>)
    ELSE LoadFailed("Corrupted data", <<>>)

load_private_key_dovecot_v2(len, input, password, dec_key, fault) ==
    LET Plain(nid, key_data) ==
            \* a hex error sets the error text and goes on with what was decoded
            FinishLoadV2(nid, key_data.data, input[len], <<>>,
                         IF key_data.ret # 0 THEN "Corrupted data" ELSE "", fault)
        Typed(enctype, nid) ==
            IF enctype.ret # 0 \/ enctype.num < 0 \/ enctype.num > 2
            THEN LoadFailed("Corrupted data", <<>>)
            ELSE IF (enctype.num = DCRYPT_DOVECOT_KEY_ENCRYPT_NONE /\ len # 5)
                      \/ (enctype.num = DCRYPT_DOVECOT_KEY_ENCRYPT_PASSWORD /\ len # 9)
                      \/ (enctype.num = DCRYPT_DOVECOT_KEY_ENCRYPT_PK /\ len # 11)
            THEN LoadFailed("Corrupted data", <<>>)
            ELSE IF nid = NID_undef THEN LoadFailed(dcrypt_openssl_error, <<>>)
            ELSE IF enctype.num = DCRYPT_DOVECOT_KEY_ENCRYPT_NONE
            THEN Plain(nid, hex_to_binary(input[4]))
            ELSE IF enctype.num = DCRYPT_DOVECOT_KEY_ENCRYPT_PK
            THEN LoadV2Pk(nid, input, dec_key, fault)
            ELSE LoadV2Password(nid, input, password, fault)
    IN Typed(str_to_int(input[3]), OBJ_txt2nid(input[2]))

(***************************************************************************)
(* load_private_key_dovecot, v1 records (EC keys only).                     *)
(***************************************************************************)
\* EC_POINT_point2hex of the compressed public point: upper case hex
ec_key_get_pub_point_hex(key) == ToUpper(binary_to_hex(EC_POINT_point2oct(key.q)))

\* the v1 key id: SHA-256 of the characters of the hex public point
public_key_id_old(key) == SHA256(TextBytes(ec_key_get_pub_point_hex(key)))

\* dcrypt_openssl_public_key_id_old as a caller sees it
dcrypt_openssl_public_key_id_old(key, result) ==
    IF key = NoKey
    THEN [exit |-> "ret", ret |-> FALSE, result |-> result, error |-> "key is NULL"]
    ELSE IF EVP_PKEY_base_id(key) # "EC"
    THEN [exit |-> "ret", ret |-> FALSE, result |-> result,
          error |-> "Only EC key supported"]
    ELSE [exit |-> "ret", ret |-> TRUE, result |-> result \o public_key_id_old(key),
          error |-> ""]

decrypt_point_v1(data, key, fault) ==
    LET Failed(r) ==
            [exit |-> r.exit, ret |-> FALSE, point |-> 0, error |-> r.error]
        Finalised(fr) ==
            IF ~fr.ret THEN Failed(fr)
            ELSE [exit |-> "ret", ret |-> TRUE, point |-> BN_bin2bn(fr.result),
                  error |-> ""]
        Updated(ur) ==
            IF ~ur.ret THEN Failed(ur)
            ELSE Finalised(ctx_sym_final(ur.ctx, ur.result,
                                         SymFault(fault, {"final", "final_neg"})))
        Inited(ir) ==
            IF ~ir.ret THEN Failed(ir)
            ELSE Updated(ctx_sym_update(ir.ctx, data, <<>>,
                                        SymFault(fault, {"update"})))
        Created(cr) ==
            Inited(ctx_sym_init(
                       ctx_sym_set_key(ctx_sym_set_iv(cr.ctx, Zeros(16), 16),
                                       key, Len(key)),
                       SymFault(fault, {"ctx_new", "cipher_init"})))
    IN Created(ctx_sym_create(AES_256_CTR, "DECRYPT"))

decrypt_point_ec_v1(dec_key, data_hex, peer_key_hex, fault) ==
    LET Derived(s) ==
            IF s.exit # "ret" \/ ~s.ret
            THEN [exit |-> s.exit, ret |-> FALSE, point |-> 0, error |-> s.error]
            ELSE decrypt_point_v1(hex_to_binary(data_hex).data, SHA256(s.S), fault)
    IN Derived(ecdh_derive_secret_local(dec_key, hex_to_binary(peer_key_hex).data,
                                        <<>>, fault))

\* the password is taken as hex text.  When PBKDF2 fails a context that was
\* never created is destroyed: ub is what its pointer happens to hold,
\* "segv" (not readable) or "stale" (something the destroy survives)
decrypt_point_password_v1(data_hex, password_hex, salt_hex, fault, ub) ==
    LET Derived(k) ==
            IF ~k.ret
            THEN [exit |-> IF ub = "segv" THEN "segv" ELSE "ret", ret |-> FALSE,
                  point |-> 0, error |-> k.error]
            ELSE decrypt_point_v1(hex_to_binary(data_hex).data, k.result, fault)
    IN
    IF ~password_hex.set
    THEN [exit |-> "segv", ret |-> FALSE, point |-> 0, error |-> ""]
    ELSE Derived(pbkdf2(hex_to_binary(password_hex.data).data,
                        hex_to_binary(salt_hex).data, SHA256_TEXT, 16, <<>>, 32,
                        fault))

load_private_key_dovecot_v1(len, input, password, dec_key, fault, ub) ==
    LET Built(eckey, point, ops) ==
            IF ~EC_KEY_check_key(eckey) \/ point = 0
            THEN LoadFailed(dcrypt_openssl_error, ops)
            ELSE IF ~KeyIdEquals(public_key_id_old(eckey), input[len])
            THEN LoadFailed("Key id mismatch after load", Append(ops, "key_id"))
            ELSE [exit |-> "ret", ret |-> TRUE, key |-> eckey, error |-> "",
                  ops |-> Append(ops, "key_id")]
        Pointed(nid, point, ops) ==
            Built([type |-> "EC", nid |-> nid.num, d |-> point,
                   q |-> EcPoint(IF point < 0 THEN 0 ELSE point)], point, ops)
        Decrypted(nid, dp, ops) ==
            IF dp.exit # "ret" THEN LoadStopped(dp.exit, ops)
            ELSE IF ~dp.ret THEN LoadFailed(dp.error, ops)
            ELSE Pointed(nid, dp.point, ops)
        Plain(nid, plain) ==
            IF plain.len < 1 THEN LoadFailed(dcrypt_openssl_error, <<>>)
            ELSE Pointed(nid, plain.num, <<>>)
        Typed(nid, enctype) ==
            IF nid.ret # 0 \/ enctype.ret # 0 THEN LoadFailed("Corrupted data", <<>>)
            ELSE IF ~EC_KEY_new_by_curve_name(nid.num)
            THEN LoadFailed(dcrypt_openssl_error, <<>>)
            ELSE IF enctype.num \notin {DCRYPT_DOVECOT_KEY_ENCRYPT_NONE,
                                        DCRYPT_DOVECOT_KEY_ENCRYPT_PASSWORD,
                                        DCRYPT_DOVECOT_KEY_ENCRYPT_PK}
            THEN LoadFailed("Invalid key data", <<>>)
            ELSE IF enctype.num = DCRYPT_DOVECOT_KEY_ENCRYPT_NONE
            THEN Plain(nid, BN_hex2bn(input[4]))
            ELSE IF len < 5
            THEN \* input[4] is the NULL that ends the field list
                 LoadStopped("segv", <<>>)
            ELSE IF enctype.num = DCRYPT_DOVECOT_KEY_ENCRYPT_PASSWORD
            THEN Decrypted(nid,
                           decrypt_point_password_v1(input[4], password, input[5],
                                                     fault, ub),
                           <<"cipher">>)
            ELSE Decrypted(nid,
                           decrypt_point_ec_v1(dec_key, input[4], input[5], fault),
                           <<"ecdh", "cipher">>)
    IN Typed(str_to_int(input[2]), str_to_int(input[3]))

\* the version is the first character of the first field
load_private_key_dovecot(data, password, dec_key, fault, ub) ==
    LET Split(input, len) ==
            IF len < 4 THEN LoadFailed("Corrupted data", <<>>)
            ELSE IF Len(input[1]) > 0 /\ input[1][1] = "1"
            THEN load_private_key_dovecot_v1(len, input, password, dec_key, fault, ub)
            ELSE IF Len(input[1]) > 0 /\ input[1][1] = "2"
            THEN load_private_key_dovecot_v2(len, input, password, dec_key, fault)
            ELSE LoadFailed("Unsupported key version", <<>>)
        Fields(input) == Split(input, Len(input))
    IN Fields(t_strsplit_tab(data))

(***************************************************************************)
(* The HMAC context.                                                        *)
(***************************************************************************)
\* EVP_MD_block_size: SHA-1 and SHA-256 work on blocks of 64 bytes
EVP_MD_block_size(md) == IF md \in {"sha1", "sha256"} THEN 64 ELSE 0

\* HMAC_MAX_MD_CBLOCK of the OpenSSL the backend is built with: 128 up to
\* 1.1.0, 144 in 1.1.1, 200 from 3.0
HmacMaxMdCblocks == {128, 144, 200}

\* a context that was not created
NoHmac == [md |-> "", key |-> None, klen |-> 0]

ctx_hmac_create(algorithm) ==
    IF EVP_get_digestbyname(algorithm) = ""
    THEN [ret |-> FALSE, ctx |-> NoHmac, error |-> "Invalid digest"]
    ELSE [ret |-> TRUE, ctx |-> [NoHmac EXCEPT !.md = EVP_get_digestbyname(algorithm)],
          error |-> ""]

\* cblock is HMAC_MAX_MD_CBLOCK, r the byte random_fill draws
ctx_hmac_set_key_random(c, cblock, r) ==
    [c EXCEPT !.klen = cblock, !.key = Some(Fill(cblock, r))]

ctx_hmac_get_key(c) ==
    IF ~c.key.set THEN [ret |-> FALSE, key |-> <<>>]
    ELSE [ret |-> TRUE, key |-> SubSeq(c.key.data, 1, c.klen)]

(***************************************************************************)
(* Questions about a key string and about a key.                            *)
(***************************************************************************)
\* strstr(haystack, needle) != NULL
strstr(haystack, needle) ==
    \E i \in 1..(Len(haystack) - Len(needle) + 1) :
        SubSeq(haystack, i, i + Len(needle) - 1) = needle

PEM_BEGIN == <<"-","-","-","-","-"," ","B","E","G","I","N"," ">>

PEM_ENCRYPTED == <<"E","N","C","R","Y","P","T","E","D">>

PEM_BEGIN_PRIVATE_KEY == <<"-","-","-","-","-"," ","B","E","G","I","N"," ","P","R","I","V","A","T","E"," ","K","E","Y">>

PEM_PRIVATE_KEY == <<"P","R","I","V","A","T","E"," ","K","E","Y">>

PEM_PUBLIC_KEY == <<"P","U","B","L","I","C"," ","K","E","Y">>

PEM_BEGIN_PUBLIC_KEY == <<"-","-","-","-","-"," ","B","E","G","I","N"," ","P","U","B","L","I","C"," ","K","E","Y">>

\* key_string_get_info returning FALSE: nothing is written for the caller
InfoFailed(error) ==
    [ret |-> FALSE, format |-> "", version |-> "", kind |-> "",
     encryption_type |-> "", encryption_key_hash |-> None, key_hash |-> None,
     error |-> error]

\* key_string_get_info returning TRUE with what it writes for the caller
InfoFound(format, version, kind, encryption_type, encryption_key_hash, key_hash) ==
    [ret |-> TRUE, format |-> format, version |-> version, kind |-> kind,
     encryption_type |-> encryption_type,
     encryption_key_hash |-> encryption_key_hash, key_hash |-> key_hash,
     error |-> ""]

\* dcrypt_openssl_key_string_get_info; key_data is None for a NULL string,
\* want_enc_hash and want_hash say that encryption_key_hash_r and key_hash_r
\* are not NULL
key_string_get_info(key_data, want_enc_hash, want_hash) ==
    IF ~key_data.set THEN InfoFailed("NULL key passed")
    ELSE IF strstr(key_data.data, PEM_BEGIN)
    THEN LET Pem(kind) ==
                 InfoFound("PEM", "NA", kind,
                           IF strstr(key_data.data, PEM_ENCRYPTED)
                           THEN "PASSWORD" ELSE "NONE",
                           None, None)
         IN IF strstr(key_data.data, PEM_BEGIN_PRIVATE_KEY) THEN Pem("PRIVATE")
            ELSE IF strstr(key_data.data, PEM_BEGIN_PUBLIC_KEY) THEN Pem("PUBLIC")
            ELSE InfoFailed("Unknown/invalid PEM key type")
    ELSE LET Dovecot(fields, nfields) ==
                 LET Found(version, kind, encryption_type, encryption_key_hash) ==
                         InfoFound("DOVECOT", version, kind, encryption_type,
                                   IF want_enc_hash THEN encryption_key_hash
                                   ELSE None,
                                   IF want_hash THEN Some(fields[nfields])
                                   ELSE None)
                 IN IF nfields < 2 THEN InfoFailed("Unknown key format")
                    ELSE IF fields[1] = <<"1">>
                    THEN IF nfields = 3
                         THEN Found("1", "PUBLIC", "NONE", None)
                         ELSE IF nfields = 5 /\ fields[3] = <<"0">>
                         THEN Found("1", "PRIVATE", "NONE", None)
                         ELSE IF nfields = 6 /\ fields[3] = <<"2">>
                         THEN Found("1", "PRIVATE", "PASSWORD", None)
                         ELSE IF nfields = 11 /\ fields[3] = <<"1">>
                         THEN Found("1", "PRIVATE", "KEY", Some(fields[nfields - 1]))
                         ELSE InfoFailed("Invalid dovecot v1 encoding")
                    ELSE IF fields[1] = <<"2">>
                    THEN IF nfields = 2
                         THEN Found("1", "PUBLIC", "NONE", None)
                         ELSE IF nfields = 5 /\ fields[3] = <<"0">>
                         THEN Found("1", "PRIVATE", "NONE", None)
                         ELSE IF nfields = 9 /\ fields[3] = <<"2">>
                         THEN Found("1", "PRIVATE", "PASSWORD", None)
                         ELSE IF nfields = 11 /\ fields[3] = <<"1">>
                         THEN Found("1", "PRIVATE", "KEY", Some(fields[nfields - 1]))
                         ELSE InfoFailed("Invalid dovecot v2 encoding")
                    ELSE Found("NA", "PUBLIC", "NONE", None)
             Split(fields) == Dovecot(fields, Len(fields))
         IN Split(t_strsplit_tab(key_data.data))

\* dcrypt_openssl_private_key_type; key_type is what the caller's variable
\* held before the call
private_key_type(key, key_type) ==
    IF key = NoKey THEN [ret |-> FALSE, key_type |-> key_type]
    ELSE [ret |-> FALSE,
          key_type |-> IF EVP_PKEY_base_id(key) = "RSA" THEN "RSA"
                       ELSE IF EVP_PKEY_base_id(key) = "EC" THEN "EC"
                       ELSE key_type]

\* dcrypt_openssl_public_key_type
public_key_type(key, key_type) ==
    IF key = NoKey THEN [ret |-> FALSE, key_type |-> key_type]
    ELSE [ret |-> FALSE,
          key_type |-> IF EVP_PKEY_base_id(key) = "RSA" THEN "RSA"
                       ELSE IF EVP_PKEY_base_id(key) = "EC" THEN "EC"
                       ELSE key_type]

(***************************************************************************)
(* A caller of the key operations: it generates a key pair, or stores a     *)
(* private key and loads the record back, or loads a record it was given.   *)
(***************************************************************************)
ECDH_AES_256_CTR == ECDH_PREFIX \o AES_256_CTR

CIPHER_UNKNOWN == <<"r","o","t","1","3">>

PASSWORD_A == <<"a", "a">>

PASSWORD_B == <<"b", "b">>

\* the public halves a caller can encrypt to
PublicKeys == {private_to_public_key(k).pub : k \in PrivateKeys}

\* how a caller stores a key: as it is, under a password, or to a key; and
\* the two calls that leave out what the cipher needs
StoreCalls ==
    {[cipher |-> None, password |-> None, enc_key |-> NoKey]}
    \cup {[cipher |-> Some(c), password |-> Some(pw), enc_key |-> NoKey] :
            c \in {AES_256_CTR, AES_256_GCM, CIPHER_UNKNOWN},
            pw \in {PASSWORD_A, PASSWORD_B}}
    \cup {[cipher |-> Some(ECDH_AES_256_CTR), password |-> None, enc_key |-> k] :
            k \in PublicKeys}
    \cup {[cipher |-> Some(AES_256_CTR), password |-> None, enc_key |-> NoKey],
          [cipher |-> Some(ECDH_AES_256_CTR), password |-> None,
           enc_key |-> NoKey]}

\* the backend calls a store of this kind goes through
StoreFaults(key, call) ==
    {"none", "oid", "der", "digest"}
    \cup (IF key.type = "RSA" THEN {"serialize"} ELSE {})
    \cup (IF call.cipher.set THEN {"pbkdf2", "cipher_init", "update", "final"}
          ELSE {})
    \cup (IF call.enc_key.type = "EC" THEN {"keygen", "derive"} ELSE {})
    \cup (IF call.enc_key.type = "RSA" THEN {"rsa"} ELSE {})

\* what an uninitialised pointer can hold
PointerOutcomes == {"null", "stale", "segv"}

\* what the caller's buffer holds before a record is put into it
Prefix == <<"#">>

Curves == {SN_prime256v1, SN_unknown}

RsaBits == {2048}

\* the hex text of a private scalar in a v1 record
ScalarHex(d) == ToUpper(binary_to_hex(<<d>>))

\* a v1 record of the private scalar d, unencrypted, carrying the key id of
\* the scalar e
V1Record(d, e) ==
    JoinTab(<< <<"1">>, dec_text(NID_X9_62_prime256v1), <<"0">>, ScalarHex(d),
               binary_to_hex(public_key_id_old(EcKey(e))) >>)

\* the records a caller can be given
GivenRecords == {V1Record(d, e) : d \in 1..MaxScalar, e \in 1..MaxScalar}

NoStore == [from |-> "none", key |-> NoKey, cipher |-> None, password |-> None,
            enc_key |-> NoKey, fault |-> "none", exit |-> "ret", ret |-> FALSE,
            used |-> 0, altered |-> "no"]

NoLoad == [done |-> FALSE, password |-> None, dec_key |-> NoKey,
           fault |-> "none", exit |-> "ret", ret |-> FALSE, key |-> NoKey,
           error |-> "", ops |-> <<>>]

NoQuery == [op |-> "none"]

NoPair == [done |-> FALSE, kind |-> "", genok |-> FALSE, exit |-> "ret",
           ret |-> FALSE, priv |-> NoKey, pub |-> NoKey, error |-> ""]

KeyInitState ==
    /\ kdest = Prefix
    /\ kstore = NoStore
    /\ kload = NoLoad
    /\ kpair = NoPair
    /\ kquery = NoQuery

\* nothing was done yet with keys
KeyIdle == kstore = NoStore /\ kload = NoLoad /\ kpair = NoPair /\ kquery = NoQuery

\* the record held by kdest, after what the buffer held before
Record == SubSeq(kdest, kstore.used + 1, Len(kdest))

HasRecord == kstore.from = "given" \/ (kstore.from = "store" /\ kstore.ret)

\* the encryption type field of the record
RecordEnctype == LET fs == t_strsplit_tab(Record) IN IF Len(fs) < 3 THEN <<>> ELSE fs[3]

\* what a caller passes to load a record of this kind: nothing, a password
\* (or none), a key (or none)
LoadCalls ==
    IF RecordEnctype = <<"2">>
    THEN {[password |-> pw, dec_key |-> NoKey] :
            pw \in {None, Some(PASSWORD_A), Some(PASSWORD_B)}}
    ELSE IF RecordEnctype = <<"1">>
    THEN {[password |-> None, dec_key |-> k] : k \in PrivateKeys \cup {NoKey}}
    ELSE {[password |-> None, dec_key |-> NoKey]}

\* the backend calls a load of this kind goes through
LoadFaults ==
    {"none", "der", "digest"}
    \cup (IF RecordEnctype \in {<<"1">>, <<"2">>}
          THEN {"pbkdf2", "cipher_init", "update", "final"} ELSE {})
    \cup (IF RecordEnctype = <<"1">> THEN {"rsa", "derive"} ELSE {})

GenerateKeypair(kind, bits, curve, r, fault) ==
    /\ KeyIdle
    /\ LET Returned(g) ==
               kpair' = [done |-> TRUE, kind |-> kind,
                         genok |-> fault = "none"
                                   /\ (kind = "EC" => OBJ_sn2nid(curve) # NID_undef),
                         exit |-> g.exit, ret |-> g.ret, priv |-> g.priv,
                         pub |-> g.pub, error |-> g.error]
       IN Returned(generate_keypair(kind, bits, curve, r, fault))
    /\ UNCHANGED <<kdest, kstore, kload, kquery>>
    /\ UNCHANGED symvars

StorePrivateKey(key, call, r, fault, ub) ==
    /\ KeyIdle
    /\ LET Returned(st) ==
               /\ kdest' = st.destination
               /\ kstore' = [from |-> "store", key |-> key, cipher |-> call.cipher,
                             password |-> call.password, enc_key |-> call.enc_key,
                             fault |-> fault, exit |-> st.exit, ret |-> st.ret,
                             used |-> Len(kdest), altered |-> "no"]
       IN Returned(store_private_key_dovecot(key, call.cipher, kdest,
                                             call.password, call.enc_key, r, fault,
                                             ub))
    /\ UNCHANGED <<kload, kpair, kquery>>
    /\ UNCHANGED symvars

GiveRecord(record) ==
    /\ KeyIdle
    /\ kdest' = kdest \o record
    /\ kstore' = [NoStore EXCEPT !.from = "given", !.used = Len(kdest)]
    /\ UNCHANGED <<kload, kpair, kquery>>
    /\ UNCHANGED symvars

\* the last field of a record in another letter case, or with its last
\* character changed
AlterId(record, how) ==
    LET fs == t_strsplit_tab(record)
        id == fs[Len(fs)]
        changed == IF how = "case" THEN ToUpper(id)
                   ELSE IF Len(id) = 0 THEN <<"0">>
                   ELSE [id EXCEPT ![Len(id)] = IF @ = "0" THEN "1" ELSE "0"]
    IN JoinTab([fs EXCEPT ![Len(fs)] = changed])

\* the record is changed before it is loaded
AlterRecord(how) ==
    /\ HasRecord /\ kstore.altered = "no" /\ ~kload.done
    /\ kdest' = SubSeq(kdest, 1, kstore.used) \o AlterId(Record, how)
    /\ kdest' # kdest
    /\ kstore' = [kstore EXCEPT !.altered = how]
    /\ UNCHANGED <<kload, kpair, kquery>>
    /\ UNCHANGED symvars

LoadPrivateKey(call, fault, ub) ==
    /\ HasRecord /\ ~kload.done
    /\ LET Returned(ld) ==
               kload' = [done |-> TRUE, password |-> call.password,
                         dec_key |-> call.dec_key, fault |-> fault,
                         exit |-> ld.exit, ret |-> ld.ret, key |-> ld.key,
                         error |-> ld.error, ops |-> ld.ops]
       IN Returned(load_private_key_dovecot(Record, call.password, call.dec_key,
                                            fault, ub))
    /\ UNCHANGED <<kdest, kstore, kpair, kquery>>
    /\ UNCHANGED symvars

Init == SymInitState /\ KeyInitState

Next ==
    \/ /\ KeyIdle
       /\ \E kind \in {"RSA", "EC"}, bits \in RsaBits, curve \in Curves,
             r \in 1..MaxScalar, fault \in {"none", "keygen"} :
             GenerateKeypair(kind, bits, curve, r, fault)
    \/ /\ KeyIdle
       /\ \E key \in PrivateKeys, call \in StoreCalls, r \in 1..MaxRandom,
             ub \in PointerOutcomes :
             \E fault \in StoreFaults(key, call) :
                StorePrivateKey(key, call, r, fault, ub)
    \/ /\ KeyIdle
       /\ \E record \in GivenRecords : GiveRecord(record)
    \/ \E how \in {"case", "char"} : AlterRecord(how)
    \/ /\ HasRecord /\ ~kload.done
       /\ \E call \in LoadCalls, fault \in LoadFaults, ub \in {"stale", "segv"} :
             LoadPrivateKey(call, fault, ub)

\* the key operations
Spec == Init /\ [][Next]_vars

\* the symmetric context
SpecSym == Init /\ [][SymNext]_vars

\* the enctype fields a crafted record can carry: the three types, and texts
\* that are no type
CraftedEnctypes == {<<"0">>, <<"1">>, <<"2">>, <<"3">>, <<"-", "1">>, <<"x">>, <<>>}

\* a v2 record of n fields with the given key type and enctype fields, the
\* other fields holding one hex byte
CraftedV2(oid, enctype, n) ==
    JoinTab([k \in 1..n |-> IF k = 1 THEN <<"2">>
                            ELSE IF k = 2 THEN oid
                            ELSE IF k = 3 THEN enctype
                            ELSE <<"0", "0">>])

\* a v1 record of n fields on the curve prime256v1 with the given enctype
\* field, the other fields holding one hex byte
CraftedV1(enctype, n) ==
    JoinTab([k \in 1..n |-> IF k = 1 THEN <<"1">>
                            ELSE IF k = 2 THEN dec_text(NID_X9_62_prime256v1)
                            ELSE IF k = 3 THEN enctype
                            ELSE <<"0", "1">>])

\* the record a store of the first EC key with this call writes
StoredRecord(call) ==
    store_private_key_dovecot(EcKey(1), call.cipher, <<>>, call.password,
                              call.enc_key, 1, "none", "null").destination

\* the record with a character that is no hex digit after its k-th field
SpoiltField(record, k) ==
    LET Spoilt(fs) == JoinTab([fs EXCEPT ![k] = @ \o <<"z">>])
    IN Spoilt(t_strsplit_tab(record))

\* the hex fields the v2 loader decodes: key material (enctype 0); salt and
\* ciphertext (enctype 2); salt, ciphertext and peer material (enctype 1)
UsedHexFields(enctype) ==
    IF enctype = <<"0">> THEN {4}
    ELSE IF enctype = <<"2">> THEN {5, 8}
    ELSE IF enctype = <<"1">> THEN {5, 8, 9}
    ELSE {}

\* well-formed v2 records of the three kinds
WellFormedRecords ==
    {StoredRecord(call) :
        call \in {[cipher |-> None, password |-> None, enc_key |-> NoKey],
                  [cipher |-> Some(AES_256_CTR), password |-> Some(PASSWORD_A),
                   enc_key |-> NoKey]}
                 \cup {[cipher |-> Some(ECDH_AES_256_CTR), password |-> None,
                        enc_key |-> k] : k \in PublicKeys}}

\* v2 records of which one hex field is spoilt
SpoiltRecords ==
    UNION {{SpoiltField(record, k) : k \in UsedHexFields(t_strsplit_tab(record)[3])} :
            record \in WellFormedRecords}

\* the record with "0" as its rounds field
ZeroRounds(record) ==
    LET Zeroed(fs) == JoinTab([fs EXCEPT ![7] = <<"0">>])
    IN Zeroed(t_strsplit_tab(record))

\* encrypted v2 records that name no rounds
ZeroRoundsRecords ==
    {ZeroRounds(record) :
        record \in {w \in WellFormedRecords : Len(t_strsplit_tab(w)) >= 9}}

\* records of every shape, well formed or not
CraftedRecords ==
    {CraftedV2(oid, enctype, n) :
        oid \in {OID_prime256v1, SN_unknown}, enctype \in CraftedEnctypes,
        n \in 3..MaxFields}
    \cup {CraftedV1(enctype, n) : enctype \in CraftedEnctypes, n \in 3..MaxFields}
    \cup WellFormedRecords \cup SpoiltRecords \cup ZeroRoundsRecords

NextCrafted ==
    \/ /\ KeyIdle
       /\ \E record \in CraftedRecords : GiveRecord(record)
    \/ /\ HasRecord /\ ~kload.done
       /\ \E call \in LoadCalls, fault \in LoadFaults, ub \in {"stale", "segv"} :
             LoadPrivateKey(call, fault, ub)

\* a caller loading records it was given, of any shape
SpecCrafted == Init /\ [][NextCrafted]_vars

\* a key string of n fields starting with the given version and carrying the
\* given enctype field; every other field tells its position
InfoRecord(version, enctype, n) ==
    JoinTab([k \in 1..n |-> IF k = 1 THEN version
                            ELSE IF k = 3 THEN enctype
                            ELSE <<"f">> \o DecText(k)])

PemStrings ==
    {<<"-","-","-","-","-"," ","B","E","G","I","N"," ","P","R","I","V","A","T","E"," ","K","E","Y","-","-","-","-","-">>,
     <<"-","-","-","-","-"," ","B","E","G","I","N"," ","P","U","B","L","I","C"," ","K","E","Y","-","-","-","-","-">>,
     <<"-","-","-","-","-"," ","B","E","G","I","N"," ","E","N","C","R","Y","P","T","E","D"," ","P","R","I","V","A","T","E"," ","K","E","Y","-","-","-","-","-">>,
     <<"-","-","-","-","-"," ","B","E","G","I","N"," ","P","R","I","V","A","T","E"," ","K","E","Y","-","-","-","-","-","E","N","C","R","Y","P","T","E","D">>,
     <<"-","-","-","-","-"," ","B","E","G","I","N"," ","C","E","R","T","I","F","I","C","A","T","E","-","-","-","-","-">>,
     <<"-","-","-","-","-","B","E","G","I","N"," ","P","R","I","V","A","T","E"," ","K","E","Y","-","-","-","-","-">>}

\* the key strings a caller asks about
KeyStrings ==
    {Some(InfoRecord(version, enctype, n)) :
        version \in {<<"1">>, <<"2">>, <<"3">>}, enctype \in CraftedEnctypes,
        n \in 1..MaxFields}
    \cup {Some(pem) : pem \in PemStrings}
    \cup {None}

\* a key of a type that is neither RSA nor EC
DsaKey == [type |-> "DSA", nid |-> NID_undef, d |-> 1, q |-> 1]

\* the key handles a caller asks about
TypedKeys == PrivateKeys \cup {NoKey, DsaKey}

InspectKeyString(key_data, want_enc_hash, want_hash) ==
    /\ kquery' = [op |-> "info",
                  arg |-> [key_data |-> key_data, want_enc_hash |-> want_enc_hash,
                           want_hash |-> want_hash],
                  res |-> key_string_get_info(key_data, want_enc_hash, want_hash)]
    /\ UNCHANGED <<kdest, kstore, kload, kpair>>
    /\ UNCHANGED symvars

PrivateKeyType(key, key_type) ==
    /\ kquery' = [op |-> "private_key_type",
                  arg |-> [key |-> key, key_type |-> key_type],
                  res |-> private_key_type(key, key_type)]
    /\ UNCHANGED <<kdest, kstore, kload, kpair>>
    /\ UNCHANGED symvars

PublicKeyType(key, key_type) ==
    /\ kquery' = [op |-> "public_key_type",
                  arg |-> [key |-> key, key_type |-> key_type],
                  res |-> public_key_type(key, key_type)]
    /\ UNCHANGED <<kdest, kstore, kload, kpair>>
    /\ UNCHANGED symvars

\* the texts a caller has ciphered
CipherInputs == {<<>>, <<1>>, <<1, 2>>}

CipherKey(cipher, mode, input, secret, salt, rounds, fault) ==
    /\ kquery' = [op |-> "cipher_key",
                  arg |-> [cipher |-> cipher, mode |-> mode, input |-> input,
                           secret |-> secret, salt |-> salt, rounds |-> rounds],
                  res |-> cipher_key_dovecot_v2(cipher, mode, input, secret, salt,
                                                DCRYPT_DOVECOT_KEY_ENCRYPT_HASH,
                                                rounds, <<>>, fault)]
    /\ UNCHANGED <<kdest, kstore, kload, kpair>>
    /\ UNCHANGED symvars

\* the ephemeral points a caller passes: a point of the curve, and no point
PeerPoints == {EC_POINT_point2oct(EcPoint(1)), <<>>}

PublicKeyIdOld(key) ==
    /\ kquery' = [op |-> "public_key_id_old", arg |-> [key |-> key],
                  res |-> dcrypt_openssl_public_key_id_old(key, <<>>)]
    /\ UNCHANGED <<kdest, kstore, kload, kpair>>
    /\ UNCHANGED symvars

EcdhDeriveSecretLocal(key, R, fault) ==
    /\ kquery' = [op |-> "ecdh_derive_secret_local", arg |-> [key |-> key, R |-> R],
                  res |-> ecdh_derive_secret_local(key, R, <<>>, fault)]
    /\ UNCHANGED <<kdest, kstore, kload, kpair>>
    /\ UNCHANGED symvars

EcdhDeriveSecretPeer(key, r, fault) ==
    /\ kquery' = [op |-> "ecdh_derive_secret_peer", arg |-> [key |-> key],
                  res |-> ecdh_derive_secret_peer(key, <<>>, <<>>, r, fault)]
    /\ UNCHANGED <<kdest, kstore, kload, kpair>>
    /\ UNCHANGED symvars

DecryptPointEcV1(key, data_hex, R, fault) ==
    /\ kquery' = [op |-> "decrypt_point_ec_v1",
                  arg |-> [key |-> key, data_hex |-> data_hex, R |-> R],
                  res |-> decrypt_point_ec_v1(key, data_hex, binary_to_hex(R), fault)]
    /\ UNCHANGED <<kdest, kstore, kload, kpair>>
    /\ UNCHANGED symvars

DecryptPointPasswordV1(data_hex, password, salt_hex, fault, ub) ==
    /\ kquery' = [op |-> "decrypt_point_password_v1",
                  arg |-> [data_hex |-> data_hex, password |-> password,
                           salt_hex |-> salt_hex],
                  res |-> decrypt_point_password_v1(data_hex, password, salt_hex,
                                                    fault, ub)]
    /\ UNCHANGED <<kdest, kstore, kload, kpair>>
    /\ UNCHANGED symvars

HmacCreate(algorithm) ==
    /\ kquery' = [op |-> "ctx_hmac_create", arg |-> [algorithm |-> algorithm],
                  res |-> ctx_hmac_create(algorithm)]
    /\ UNCHANGED <<kdest, kstore, kload, kpair>>
    /\ UNCHANGED symvars

HmacSetKeyRandom(cblock, r) ==
    /\ kquery' = [op |-> "ctx_hmac_set_key_random", arg |-> [cblock |-> cblock],
                  res |-> [ret |-> TRUE,
                           ctx |-> ctx_hmac_set_key_random(kquery.res.ctx, cblock, r),
                           error |-> ""]]
    /\ UNCHANGED <<kdest, kstore, kload, kpair>>
    /\ UNCHANGED symvars

HmacGetKey ==
    /\ kquery' = [op |-> "ctx_hmac_get_key", arg |-> [ctx |-> kquery.res.ctx],
                  res |-> ctx_hmac_get_key(kquery.res.ctx)]
    /\ UNCHANGED <<kdest, kstore, kload, kpair>>
    /\ UNCHANGED symvars

\* a caller holds an HMAC context
HmacHeld ==
    /\ kquery.op \in {"ctx_hmac_create", "ctx_hmac_set_key_random"}
    /\ kquery.res.ret

\* the result buffers a caller passes: an empty one and one already in use
IdResults == {<<>>, <<7>>}

PublicKeyId(key, algorithm, result, fault) ==
    /\ kquery' = [op |-> "public_key_id",
                  arg |-> [key |-> key, algorithm |-> algorithm,
                           result |-> result],
                  res |-> public_key_id(key, algorithm, result, fault)]
    /\ UNCHANGED <<kdest, kstore, kload, kpair>>
    /\ UNCHANGED symvars

NextQuery ==
    \/ /\ KeyIdle
       /\ \E key_data \in KeyStrings, want_enc_hash \in BOOLEAN,
             want_hash \in BOOLEAN :
             InspectKeyString(key_data, want_enc_hash, want_hash)
    \/ /\ KeyIdle
       /\ \E key \in TypedKeys, key_type \in {"RSA", "EC"} :
             PrivateKeyType(key, key_type)
    \/ /\ KeyIdle
       /\ \E key \in TypedKeys, key_type \in {"RSA", "EC"} :
             PublicKeyType([key EXCEPT !.d = 0], key_type)
    \/ /\ KeyIdle
       /\ \E cipher \in {AES_256_CTR, AES_256_GCM, CIPHER_UNKNOWN},
             mode \in {"ENCRYPT", "DECRYPT"}, input \in CipherInputs,
             secret \in {TextBytes(PASSWORD_A), TextBytes(PASSWORD_B)},
             salt \in {<<1>>, <<2>>},
             rounds \in {1, DCRYPT_DOVECOT_KEY_ENCRYPT_ROUNDS},
             fault \in {"none", "pbkdf2", "cipher_init", "final"} :
             CipherKey(cipher, mode, input, secret, salt, rounds, fault)
    \/ /\ KeyIdle
       /\ \E key \in TypedKeys : PublicKeyIdOld([key EXCEPT !.d = 0])
    \/ /\ KeyIdle
       /\ \E key \in TypedKeys, R \in PeerPoints, fault \in {"none", "derive"} :
             EcdhDeriveSecretLocal(key, R, fault)
    \/ /\ KeyIdle
       /\ \E key \in TypedKeys, r \in 1..MaxRandom,
             fault \in {"none", "keygen", "derive"} :
             EcdhDeriveSecretPeer([key EXCEPT !.d = 0], r, fault)
    \/ /\ KeyIdle
       /\ \E key \in TypedKeys, d \in 1..MaxScalar, R \in PeerPoints,
             fault \in {"none", "derive", "final"} :
             DecryptPointEcV1(key, ScalarHex(d), R, fault)
    \/ /\ KeyIdle
       /\ \E d \in 1..MaxScalar, password \in {Some(PASSWORD_A), Some(PASSWORD_B)},
             salt \in {<<1>>, <<2>>}, fault \in {"none", "pbkdf2", "final"},
             ub \in {"stale", "segv"} :
             DecryptPointPasswordV1(ScalarHex(d), password, binary_to_hex(salt),
                                    fault, ub)
    \/ /\ KeyIdle
       /\ \E algorithm \in {SHA1_TEXT, SHA256_TEXT, SN_unknown} :
             HmacCreate(algorithm)
    \/ /\ HmacHeld
       /\ \E cblock \in HmacMaxMdCblocks, r \in 1..MaxRandom :
             HmacSetKeyRandom(cblock, r)
    \/ /\ HmacHeld
       /\ HmacGetKey
    \/ /\ KeyIdle
       /\ \E key \in TypedKeys, algorithm \in {SHA1_TEXT, SHA256_TEXT, SN_unknown},
             result \in IdResults, fault \in {"none", "der", "digest"} :
             PublicKeyId([key EXCEPT !.d = 0], algorithm, result, fault)

\* a caller asking about key strings and keys
SpecQuery == Init /\ [][NextQuery]_vars

(***************************************************************************)
(* Properties.                                                              *)
(***************************************************************************)
\* the v2 key id of a key, as lowercase hex: SHA-256 of its DER
\* SubjectPublicKeyInfo
KeyIdV2(k) == binary_to_hex(SHA256(i2d_PUBKEY(k)))

\* the v1 key id of a key, as lowercase hex
KeyIdV1(k) == binary_to_hex(public_key_id_old(k))

RecordFields == t_strsplit_tab(Record)

LastField == RecordFields[Len(RecordFields)]

\* the record was stored by a store that met no backend failure, and was
\* not changed since
StoredClean ==
    kstore.from = "store" /\ kstore.fault = "none" /\ kstore.altered = "no"

\* a load that met no backend failure gave back the key that was stored
LoadedSameKey ==
    (kload.done /\ kload.fault = "none")
        => /\ kload.exit = "ret" /\ kload.ret
           /\ KeyIdV2(kload.key) = KeyIdV2(kstore.key)

\* C1: generate_keypair returns success whenever the RSA or EC generation
\* below it succeeds, the pair then holding the generated private key and the
\* public key derived from it; it returns failure only when the generation
\* fails or the kind or curve is not supported.
C1_GenerateKeypairSucceeds ==
    kpair.done =>
        /\ kpair.genok =>
              /\ kpair.exit = "ret" /\ kpair.ret
              /\ kpair.priv.type = kpair.kind /\ kpair.priv.d # 0
              /\ kpair.pub = private_to_public_key(kpair.priv).pub
        /\ (kpair.exit = "ret" /\ ~kpair.ret) => ~kpair.genok

\* C2: for any RSA or EC private key k, storing k in v2 format with no cipher
\* and loading the record succeeds and gives a key with the v2 id of k.
C2_RoundTripUnencrypted ==
    (StoredClean /\ ~kstore.cipher.set)
        => /\ kstore.exit = "ret" /\ kstore.ret
           /\ LoadedSameKey

\* C3: for any private key k, password P and cipher aes-256-ctr or
\* aes-256-gcm, loading with P the record stored with P and the cipher
\* succeeds and gives a key with the id of k.
C3_RoundTripPassword ==
    (StoredClean /\ kstore.cipher \in {Some(AES_256_CTR), Some(AES_256_GCM)}
       /\ kstore.password.set)
        => /\ kstore.exit = "ret" /\ kstore.ret
           /\ kload.password = kstore.password => LoadedSameKey

\* C4: for any wrapping key pair W, EC or RSA, and any private key k, loading
\* with W's private key the record stored to W's public key with cipher
\* ecdh-aes-256-ctr succeeds and gives a key with the id of k.
C4_RoundTripWrapped ==
    (StoredClean /\ kstore.cipher = Some(ECDH_AES_256_CTR)
       /\ kstore.enc_key # NoKey)
        => /\ kstore.exit = "ret" /\ kstore.ret
           /\ private_to_public_key(kload.dec_key).pub = kstore.enc_key
                 => LoadedSameKey

\* the record is a v2 record encrypted to a key
WrappedRecord ==
    HasRecord /\ kstore.from = "store" /\ RecordEnctype = <<"1">>

DecryptOps == {"rsa_decrypt", "ecdh", "cipher"}

\* C5: loading a v2 record of enctype 1, the hex SHA-256 id of the public side
\* of the decryption key is compared with the record's enc-key-id field before
\* any RSA decryption, ECDH derivation or symmetric decryption; when the id
\* of the key (its DER encoding being available) differs from the field the
\* load fails with "No private key available", no key is returned and
\* nothing was decrypted.
C5_EncKeyIdBeforeDecrypt ==
    (kload.done /\ WrappedRecord) =>
        /\ (\E i \in 1..Len(kload.ops) : kload.ops[i] \in DecryptOps)
              => kload.ops[1] = "enc_key_id"
        /\ (kload.dec_key # NoKey /\ kload.fault # "der"
              /\ KeyIdV2(kload.dec_key) # RecordFields[10])
              => /\ kload.exit = "ret" /\ ~kload.ret
                 /\ kload.error = "No private key available"
                 /\ kload.key = NoKey
                 /\ kload.ops = <<"enc_key_id">>

\* a record encrypted to one key was loaded with another, and refused
C5_Witness ==
    /\ kload.done /\ WrappedRecord /\ kload.dec_key # NoKey
    /\ kload.fault = "none"
    /\ private_to_public_key(kload.dec_key).pub # kstore.enc_key
    /\ kload.error = "No private key available"

\* the record is a v2 record encrypted with a password
PasswordRecord ==
    HasRecord /\ kstore.from = "store" /\ RecordEnctype = <<"2">>

\* the password given to the load is not the one the record was stored with
WrongPassword ==
    kload.done /\ PasswordRecord /\ kload.password.set
    /\ kload.password # kstore.password

C7_SuccessOnlyOnIdMatch ==
    kload.done =>
        /\ (kload.exit = "ret" /\ kload.ret)
              => LastField = (IF RecordFields[1] = <<"1">>
                              THEN KeyIdV1(kload.key) ELSE KeyIdV2(kload.key))
        /\ kload.error = "Key id mismatch after load"
              => ~kload.ret /\ kload.key = NoKey

\* C8: whenever storing a private key returns failure, on every failure path,
\* the used size of the destination buffer is what it was before the call.
C8_FailedStoreRestoresSize ==
    (kstore.from = "store" /\ kstore.exit = "ret" /\ ~kstore.ret)
        => Len(kdest) = kstore.used /\ kdest = Prefix

\* a store failed in the symmetric encryption, after the head of the record
\* had been appended
C8_Witness ==
    /\ kstore.from = "store" /\ kstore.exit = "ret" /\ ~kstore.ret
    /\ kstore.fault = "final" /\ kstore.cipher = Some(AES_256_CTR)
    /\ kdest = Prefix

\* C9: init runs only when key and IV are set and no cipher state is live;
\* update and final process data only after an init that returned success and
\* was not yet followed by final; a second init without a final between, or
\* an update or final outside that window, is stopped by an assertion.
C9_InitUpdateFinalWindow ==
    [][/\ (slast'.op = "init" /\ slast'.exit # "assert")
             => (sctx.key.set /\ sctx.iv.set /\ ~sctx.ctx.live)
       /\ (slast'.op \in {"update", "final"} /\ slast'.processed)
             => swin = "open"
       /\ (slast'.op = "init" /\ swin = "open") => slast'.exit = "assert"
       /\ (slast'.op \in {"update", "final"} /\ swin # "open")
             => slast'.exit = "assert"]_vars

\* C10: after final has returned, with success or not, the context can be
\* initialised again and run through update and final again, in every mode
\* and configuration, also in encrypt mode with AAD when the final before
\* produced a tag: none of these calls is stopped by an assertion.
C10_ReuseAfterFinal ==
    [][(/\ sfin >= 1 /\ stag # "caller"
        /\ \/ slast'.op = "init" /\ swin = "none"
           \/ slast'.op \in {"update", "final"} /\ swin = "open")
          => slast'.exit # "assert"]_vars

\* C11: across create, the setters, init, update, final and destroy, each
\* cipher state acquired by init is released exactly once: the states
\* acquired and not released are the one the context holds, if it holds one;
\* after final has returned, TRUE or FALSE, the context holds none; and
\* destroy releases what is still held, and nothing when nothing is held.
C11_CipherStateReleasedOnce ==
    slast.exit = "ret" =>
        /\ sheap = IF sctx.ctx.live THEN 1 ELSE 0
        /\ slast.op = "final" => ~sctx.ctx.live /\ sheap = 0
        /\ slast.op = "destroy" => sheap = 0

\* a final returned FALSE and the cipher state is gone
C11_Witness ==
    /\ slast.op = "final" /\ slast.exit = "ret" /\ ~slast.ret
    /\ ~sctx.ctx.live /\ sheap = 0

\* C12: in decrypt mode with an AEAD cipher, final returns success only if a
\* tag was set with set_tag before it and the tag verifies against the key,
\* IV, AAD and ciphertext processed; when the tag does not verify (none set,
\* or another one) final returns failure with "data authentication failed".
C12_AeadDecryptNeedsTag ==
    [][\A f \in SymFinalFaults :
          (SymFinal(f) /\ sctx.cipher = "gcm" /\ sctx.mode = 0
             /\ slast'.exit = "ret")
          => LET verifies ==
                     /\ sctx.tag.set /\ sctx.ctx.inited
                     /\ sctx.tag.data = GcmTag(sctx.ctx.key, sctx.ctx.iv,
                                               sctx.ctx.aad, sctx.ctx.acc)
             IN /\ slast'.ret => (stag = "caller" /\ verifies)
                /\ (~verifies /\ f = "none")
                      => /\ ~slast'.ret
                         /\ slast'.error = "data authentication failed"]_vars

\* a decrypting GCM final returned success on the tag the caller had set
C12_Witness ==
    /\ slast.op = "final" /\ slast.exit = "ret" /\ slast.ret
    /\ sctx.cipher = "gcm" /\ sctx.mode = 0 /\ stag = "caller"

\* C13: in encrypt mode with AAD set (an empty AAD too) and no tag set by
\* the caller, get_tag returns FALSE as long as no final has run; get_tag
\* after a final that returned TRUE gives a tag of exactly 16 bytes; and the
\* tag comes into being in final and in no other operation.
C13_TagFromFinalOnly ==
    [][(sctx.mode = 1 /\ sctx.aad.set /\ stag # "caller" /\ stag' # "caller")
         => /\ (slast'.op = "get_tag" /\ sfin = 0) => ~slast'.ret
            /\ (slast'.op = "get_tag" /\ slast.op = "final" /\ slast.ret)
                  => /\ slast'.ret
                     /\ slast'.used = 16
                     /\ Len(sctx.tag.data) = EVP_GCM_TLS_TAG_LEN
            /\ (~sctx.tag.set /\ sctx'.tag.set) => slast'.op = "final"]_vars

\* get_tag gave the 16 bytes that an encrypting final with an empty AAD left
C13_Witness ==
    /\ slast.op = "get_tag" /\ slast.ret /\ slast.used = 16
    /\ sctx.mode = 1 /\ sctx.cipher = "gcm" /\ sctx.aad = Some(<<>>)
    /\ stag = "final"

\* the number of fields a v2 record of this enctype field has; 0 when the
\* field names no type
V2FieldCount(enctype) ==
    IF enctype = <<"0">> THEN 5
    ELSE IF enctype = <<"2">> THEN 9
    ELSE IF enctype = <<"1">> THEN 11
    ELSE 0

\* the record given is a v2 record of a wrong shape
BadV2Shape ==
    /\ kstore.from = "given" /\ Len(RecordFields) >= 3
    /\ RecordFields[1] = <<"2">>
    /\ V2FieldCount(RecordFields[3]) # Len(RecordFields)

\* C14: the v2 loader rejects with "Corrupted data", before it resolves the
\* OID or touches key material, every record whose enctype field is not an
\* integer in 0..2 or whose field count is not 5 for enctype 0, 9 for
\* enctype 2 and 11 for enctype 1.
C14_BadShapeRejected ==
    (kload.done /\ BadV2Shape)
        => /\ kload.exit = "ret" /\ ~kload.ret
           /\ kload.error = "Corrupted data"
           /\ kload.key = NoKey /\ kload.ops = <<>>

\* a record with an enctype out of range and a key type that does not
\* resolve was rejected as corrupted
C14_Witness ==
    /\ kload.done /\ BadV2Shape /\ Len(RecordFields) = 5
    /\ RecordFields[3] = <<"3">> /\ RecordFields[2] = SN_unknown
    /\ kload.error = "Corrupted data"

\* the fields of the key string that was asked about
AskedFields == t_strsplit_tab(kquery.arg.key_data.data)

\* a key string that is not NULL and carries no PEM marker was asked about
AskedDovecot ==
    /\ kquery.op = "info" /\ kquery.arg.key_data.set
    /\ ~strstr(kquery.arg.key_data.data, PEM_BEGIN)
    /\ Len(AskedFields) >= 1

\* the answer names this kind and encryption type, and the last field as the
\* key identifier where the caller asked for it
AnsweredDovecot(version, kind, encryption_type) ==
    /\ kquery.res.ret
    /\ kquery.res.format = "DOVECOT" /\ kquery.res.version = version
    /\ kquery.res.kind = kind /\ kquery.res.encryption_type = encryption_type
    /\ kquery.arg.want_hash
          => kquery.res.key_hash = Some(AskedFields[Len(AskedFields)])

\* the answer names the second-to-last field as the wrapping-key identifier
\* where the caller asked for it
AnsweredWrappingKey ==
    kquery.arg.want_enc_hash
        => kquery.res.encryption_key_hash = Some(AskedFields[Len(AskedFields) - 1])

\* the shapes of a v2 key string
V2Public == AskedFields[1] = <<"2">> /\ Len(AskedFields) = 2

V2Private(enctype, n) ==
    AskedFields[1] = <<"2">> /\ Len(AskedFields) = n /\ AskedFields[3] = enctype

\* the shapes of a v1 key string
V1Public == AskedFields[1] = <<"1">> /\ Len(AskedFields) = 3

V1Private(enctype, n) ==
    AskedFields[1] = <<"1">> /\ Len(AskedFields) = n /\ AskedFields[3] = enctype

\* C15: for a key string of a valid v2 shape the inspector reports format
\* Dovecot, version 2, the kind and encryption type of the shape (2 fields
\* public; 5 with enctype 0 private/none; 9 with enctype 2 private/password;
\* 11 with enctype 1 private/key) and the last field as key identifier.
C15_V2StringInfo ==
    AskedDovecot =>
        /\ V2Public => AnsweredDovecot("2", "PUBLIC", "NONE")
        /\ V2Private(<<"0">>, 5) => AnsweredDovecot("2", "PRIVATE", "NONE")
        /\ V2Private(<<"2">>, 9) => AnsweredDovecot("2", "PRIVATE", "PASSWORD")
        /\ V2Private(<<"1">>, 11) => AnsweredDovecot("2", "PRIVATE", "KEY")

\* C16: a key string whose first field is "1" is classified by the v1 record
\* shapes: 3 fields public, 5 with enctype 0 private/unencrypted, 6 with
\* enctype 2 private/password, 7 with enctype 1 private/key-wrapped with the
\* second-to-last field as wrapping-key identifier.
C16_V1StringInfo ==
    AskedDovecot =>
        /\ V1Public => AnsweredDovecot("1", "PUBLIC", "NONE")
        /\ V1Private(<<"0">>, 5) => AnsweredDovecot("1", "PRIVATE", "NONE")
        /\ V1Private(<<"2">>, 6) => AnsweredDovecot("1", "PRIVATE", "PASSWORD")
        /\ V1Private(<<"1">>, 7)
              => AnsweredDovecot("1", "PRIVATE", "KEY") /\ AnsweredWrappingKey

\* the key string asked about has one of the recognised shapes
RecognisedShape ==
    \/ V1Public \/ V1Private(<<"0">>, 5) \/ V1Private(<<"2">>, 6)
    \/ V1Private(<<"1">>, 7)
    \/ V2Public \/ V2Private(<<"0">>, 5) \/ V2Private(<<"2">>, 9)
    \/ V2Private(<<"1">>, 11)

\* C17: the inspector fails for every non-PEM key string that is not a
\* recognised (version, field count, enctype) combination, also when the
\* first field is neither "1" nor "2"; it never succeeds with format Dovecot
\* and version NA.
C17_UnknownShapeFails ==
    /\ (AskedDovecot /\ ~RecognisedShape) => ~kquery.res.ret
    /\ kquery.op = "info"
          => ~(kquery.res.ret /\ kquery.res.format = "DOVECOT"
               /\ kquery.res.version = "NA")

\* a key string with the PEM marker was asked about
AskedPem ==
    /\ kquery.op = "info" /\ kquery.arg.key_data.set
    /\ strstr(kquery.arg.key_data.data, PEM_BEGIN)

\* the key string asked about holds this text
AskedHolds(text) == strstr(kquery.arg.key_data.data, text)

\* C18: for a key string with the PEM BEGIN marker the inspector reports
\* format PEM and version NA, kind private for a PRIVATE KEY header and
\* public for a PUBLIC KEY header, encryption type password exactly when
\* ENCRYPTED is present; a BEGIN ENCRYPTED PRIVATE KEY block is reported as
\* (private, password), not as an error.
C18_PemStringInfo ==
    (AskedPem /\ (AskedHolds(PEM_PRIVATE_KEY) \/ AskedHolds(PEM_PUBLIC_KEY)))
        => /\ kquery.res.ret
           /\ kquery.res.format = "PEM" /\ kquery.res.version = "NA"
           /\ kquery.res.kind = IF AskedHolds(PEM_PRIVATE_KEY) THEN "PRIVATE"
                                ELSE "PUBLIC"
           /\ kquery.res.encryption_type = "PASSWORD" <=> AskedHolds(PEM_ENCRYPTED)

\* C19: private_key_type and public_key_type return true and set the key
\* type to RSA or EC for a key of a recognised type, and fail only for a
\* NULL or unrecognised key.
C19_KeyTypeReported ==
    kquery.op \in {"private_key_type", "public_key_type"} =>
        IF kquery.arg.key.type \in {"RSA", "EC"}
        THEN kquery.res.ret /\ kquery.res.key_type = kquery.arg.key.type
        ELSE ~kquery.res.ret

\* what PBKDF2 gives for the secret, salt and rounds of the call when it is
\* asked for len bytes
AskedKdf(len) ==
    PKCS5_PBKDF2_HMAC(kquery.arg.secret, kquery.arg.salt, kquery.arg.rounds,
                      EVP_get_digestbyname(DCRYPT_DOVECOT_KEY_ENCRYPT_HASH), len)

\* the context holds the first key_len bytes of kdf as key and the iv_len
\* bytes after them as IV
KeyedFrom(c, kdf, key_len, iv_len) ==
    /\ c.key = Some(SubSeq(kdf, 1, key_len))
    /\ c.iv = Some(SubSeq(kdf, key_len + 1, key_len + iv_len))

\* C20: when v2 private-key material is encrypted or decrypted, PBKDF2 is
\* asked for exactly cipher_key_len + cipher_iv_len bytes of the named cipher
\* (32 + 16 for aes-256-ctr); the first cipher_key_len bytes become the
\* cipher key and the following cipher_iv_len bytes the IV.
C20_KdfSplitIntoKeyAndIv ==
    (kquery.op = "cipher_key" /\ kquery.res.asked > 0) =>
        LET cipher == kquery.res.dctx.cipher
            key_len == EVP_CIPHER_key_length(cipher)
            iv_len == EVP_CIPHER_iv_length(cipher)
        IN /\ kquery.res.asked = key_len + iv_len
           /\ kquery.arg.cipher = AES_256_CTR => kquery.res.asked = 32 + 16
           /\ kquery.res.ret
                 => KeyedFrom(kquery.res.dctx, AskedKdf(key_len + iv_len),
                              key_len, iv_len)

\* the operations that are defined for EC keys only
EcOnlyOps ==
    {"public_key_id_old", "ecdh_derive_secret_peer", "ecdh_derive_secret_local",
     "decrypt_point_ec_v1"}

\* C21: the operations defined only for EC keys (public_key_id_old,
\* ecdh_derive_secret_peer, ecdh_derive_secret_local, and the v1 key-wrapped
\* decryption that calls it) return failure with an error when they are given
\* an RSA key, without dereferencing EC data of the key.
C21_EcOnlyFailsCleanlyOnRsa ==
    (kquery.op \in EcOnlyOps /\ kquery.arg.key.type = "RSA")
        => /\ kquery.res.exit = "ret" /\ ~kquery.res.ret
           /\ kquery.res.error # ""

\* C22: on every return path of v2 private-key load and store, successful or
\* failing, each buffer that held the wrapping secret, the PBKDF2 output (key
\* and IV) or the plaintext key material has been zeroized before the return.
C22_SecretsWipedOnReturn ==
    (kquery.op = "cipher_key" /\ kquery.res.exit = "ret")
        => kquery.res.unwiped = {}

\* the number that AES-256-CTR decryption of the data with this key and an
\* all-zero IV gives
PointUnder(key, data) == BN_bin2bn(CipherBytes(0, key, Zeros(16), 0, data))

\* C23: for a v1 password-encrypted private key the AES-256-CTR key is the
\* 32-byte output of PBKDF2-HMAC-SHA1 over the password and the salt of the
\* record with 16 rounds, and decryption uses an all-zero IV.
C23_V1PasswordKey ==
    (kquery.op = "decrypt_point_password_v1" /\ kquery.res.exit = "ret"
     /\ kquery.res.ret)
        => kquery.res.point =
              PointUnder(PKCS5_PBKDF2_HMAC(TextBytes(kquery.arg.password.data),
                                           hex_to_binary(kquery.arg.salt_hex).data,
                                           16, EVP_get_digestbyname(SHA1_TEXT), 32),
                         hex_to_binary(kquery.arg.data_hex).data)

\* C24: after set_key_random on an HMAC context the stored key length equals
\* the block size of the hash of the context (64 bytes for sha256), for
\* every supported hash.
C24_RandomKeyIsOneBlock ==
    /\ kquery.op = "ctx_hmac_set_key_random"
          => kquery.res.ctx.klen = EVP_MD_block_size(kquery.res.ctx.md)
    /\ (kquery.op = "ctx_hmac_get_key" /\ kquery.res.ret)
          => Len(kquery.res.key) = EVP_MD_block_size(kquery.arg.ctx.md)

\* the number of fields a v1 record of this enctype field has; 0 when the
\* field names no type
V1FieldCount(enctype) ==
    IF enctype = <<"0">> THEN 5
    ELSE IF enctype = <<"2">> THEN 6
    ELSE IF enctype = <<"1">> THEN 7
    ELSE 0

\* the record given is a v1 record whose field count does not match its
\* enctype
BadV1Shape ==
    /\ kstore.from = "given" /\ Len(RecordFields) >= 3
    /\ RecordFields[1] = <<"1">>
    /\ RecordFields[3] \in {<<"0">>, <<"1">>, <<"2">>}
    /\ V1FieldCount(RecordFields[3]) # Len(RecordFields)

\* C25: the v1 loader rejects with "Corrupted data" every record whose
\* number of fields does not match its enctype (5 for enctype 0, 6 for
\* enctype 2, 7 for enctype 1) and never reads a field at an index greater
\* than or equal to the number of fields present.
C25_V1FieldCountChecked ==
    (kload.done /\ BadV1Shape)
        => /\ kload.exit = "ret" /\ ~kload.ret
           /\ kload.error = "Corrupted data"
           /\ kload.key = NoKey

\* the text is pairs of hex digits
IsHex(text) ==
    /\ Len(text) % 2 = 0
    /\ \A i \in 1..Len(text) : HexValue(text[i]) >= 0

\* the record given is a v2 record of a right shape with a hex field that is
\* no valid hex
BadV2Hex ==
    /\ kstore.from = "given" /\ Len(RecordFields) >= 3
    /\ RecordFields[1] = <<"2">>
    /\ V2FieldCount(RecordFields[3]) = Len(RecordFields)
    /\ \E k \in UsedHexFields(RecordFields[3]) : ~IsHex(RecordFields[k])

\* C26: for all three enctypes the v2 loader returns failure with "Corrupted
\* data", without going on to decrypt or decode the key, when a hex field it
\* uses (key material, salt, ciphertext, peer material) is not valid hex.
C26_BadHexRejected ==
    (kload.done /\ BadV2Hex)
        => /\ kload.exit = "ret" /\ ~kload.ret
           /\ kload.error = "Corrupted data"
           /\ kload.key = NoKey
           /\ \A i \in 1..Len(kload.ops) : kload.ops[i] \notin {"cipher", "key_id"}

\* the record given is an encrypted v2 record of a right shape
EncryptedV2Given ==
    /\ kstore.from = "given" /\ Len(RecordFields) >= 3
    /\ RecordFields[1] = <<"2">>
    /\ RecordFields[3] \in {<<"1">>, <<"2">>}
    /\ V2FieldCount(RecordFields[3]) = Len(RecordFields)

\* C27: every call of pbkdf2 made by the v2 loader satisfies the asserted
\* preconditions rounds > 0 and out_len > 0: a record whose rounds field is
\* "0" (password or key-wrapped) is rejected with an error return and does
\* not reach the assertion.
C27_RoundsCheckedBeforePbkdf2 ==
    (kload.done /\ EncryptedV2Given)
        => /\ kload.exit # "assert"
           /\ (RecordFields[7] = <<"0">> /\ kload.exit = "ret")
                 => ~kload.ret /\ kload.error # ""

\* C28: when symmetric update or final returns failure (backend error,
\* padding error, tag verification failure) the caller's result buffer has
\* the used size it had before the call; bytes are appended only by calls
\* that return success.
C28_FailedCallKeepsResultSize ==
    [][/\ \A data \in SymData, fault \in SymUpdateFaults :
             (SymUpdate(data, fault) /\ slast'.exit = "ret" /\ ~slast'.ret)
                => Len(sres') = Len(sres)
       /\ \A fault \in SymFinalFaults :
             (SymFinal(fault) /\ slast'.exit = "ret" /\ ~slast'.ret)
                => Len(sres') = Len(sres)]_vars

\* C29: public_key_id returns true if and only if it appended exactly the
\* digest-length bytes of the hash of the key's DER SubjectPublicKeyInfo to
\* the result buffer; on every failure path (unknown algorithm, NULL key, DER
\* encoding failure, digest failure) it returns false and leaves the result
\* buffer unchanged.
AppendedId(arg, res) ==
    LET md == EVP_get_digestbyname(arg.algorithm) IN
    /\ md # ""
    /\ arg.key.type # "NULL"
    /\ res.result = arg.result \o Digest(md, i2d_PUBKEY(arg.key))
    /\ Len(res.result) = Len(arg.result) + EVP_MD_size(md)

C29_KeyIdTrueIffAppended ==
    kquery.op = "public_key_id"
        => /\ kquery.res.ret <=> AppendedId(kquery.arg, kquery.res)
           /\ ~kquery.res.ret => kquery.res.result = kquery.arg.result
           /\ kquery.res.error # "" => ~kquery.res.ret

\* the record given is an encrypted v1 record of a right shape
EncryptedV1Given ==
    /\ kstore.from = "given" /\ Len(RecordFields) >= 3
    /\ RecordFields[1] = <<"1">>
    /\ RecordFields[3] \in {<<"1">>, <<"2">>}
    /\ V1FieldCount(RecordFields[3]) = Len(RecordFields)

\* the load was called without the credential the record's enctype needs
CredentialMissing ==
    \/ RecordFields[3] = <<"1">> /\ kload.dec_key = NoKey
    \/ RecordFields[3] = <<"2">> /\ kload.password = None

\* C30: loading an encrypted record (key-wrapped or password-encrypted, v1 or
\* v2) without the credential its enctype needs returns failure with an error
\* and no key, and does not dereference the missing credential.
C30_MissingCredentialFails ==
    (kload.done /\ (EncryptedV1Given \/ EncryptedV2Given) /\ CredentialMissing)
        => /\ kload.exit = "ret"
           /\ ~kload.ret
           /\ kload.error # ""
           /\ kload.key = NoKey

====
